---- MODULE Spec2Model ----
(***************************************************************************)
(* Model of three subsystems of the package manager:                       *)
(*   - the central config store (rudi-config.js): advisory lock file,      *)
(*     tmp-write + rename, read-modify-write helpers;                      *)
(*   - the installer / resolver / lockfile code (installer, tool-index.js  *)
(*     resolver and lockfile sections, env path helpers);                  *)
(*   - the MCP tool indexer (tool-index.js).                               *)
(* Each subsystem has its own specification over the shared variables.     *)
(***************************************************************************)
EXTENDS Integers, Sequences, FiniteSets, TLC

\* ------------------------------------------------------------------------
\* Bounds of the config-store model
\* ------------------------------------------------------------------------
MaxOps == 3
MaxWaits == 2

Procs == {"p1", "p2"}
DeadPid == "dead"
Stacks == {"s1", "s2"}

VARIABLES
  pc,          \* config store: position of each process inside updateRudiConfig
  op,          \* config store: the modifier the process is applying
  mem,         \* config store: the in-memory config object of the process
  waits,       \* config store: 50ms waits done in the current acquireLock
  opsDone,     \* config store: finished updateRudiConfig calls per process
  result,      \* config store: outcome of the last call of each process
  fdTarget,    \* config store: what the open tmp file descriptor refers to
  lockFile,    \* file rudi.json.lock
  tmpFile,     \* file rudi.json.tmp
  cfgFile,     \* file rudi.json
  commits,     \* history: number of renames onto rudi.json
  readAt,      \* history: value of commits when the process read the config
  lastCommit,  \* history: the last rename
  written,     \* history: every document handed to writeFileSync
  acqStart     \* history: who held the lock when the process entered
               \* acquireLock, until that holder releases or the call ends

VARIABLES
  dirs,        \* installer: package ids whose install directory exists
  manifests,   \* installer: package ids whose directory holds manifest.json
  lockfiles,   \* installer: lockfile paths <<kind directory, name>> that exist
  ipc,         \* installer: position of installPackage
  resolved,    \* installer: the resolved root node of the running call
  force,       \* installer: options.force of the running call
  toInstall,   \* installer: the install order being executed
  results,     \* installer: ids pushed to results by the loop
  ires,        \* installer: what the last installPackage call returned
  lastSingle,  \* installer: what the last installSinglePackage call returned
  ures,        \* installer: what the last uninstallPackage call returned
  attempted,   \* history: ids handed to installSinglePackage in this call
  instOps,     \* installer: top-level calls made so far
  second       \* history: the running or last installPackage call was made
               \* without force right after a successful one of the same id

instVars == <<dirs, manifests, lockfiles, ipc, resolved, force, toInstall,
              results, ires, lastSingle, ures, attempted, instOps, second>>

VARIABLES
  idxConfig,   \* indexer: shape of each stack entry of rudi.json
  secretsFile, \* indexer: secrets.json, name -> value
  configured,  \* indexer: secrets[name].configured of rudi.json
  stackIds,    \* indexer: the stack ids indexAllStacks iterates over
  xpc,         \* indexer: position of indexAllStacks
  pos,         \* indexer: loop index into stackIds
  byStack,     \* indexer: index.byStack
  probed,      \* history: stacks given a fresh byStack record in this run
  spawned,     \* history: stacks whose subprocess was spawned in this run
  child,       \* probe: state of the subprocess
  resolvedP,   \* probe: the resolved flag
  timerArmed,  \* probe: the timeout timer is pending
  requestId,   \* probe: request id counter
  pending,     \* probe: ids of the pending-request map
  sent,        \* probe: methods written to the child's stdin, in order
  probeResult, \* probe: the value the probe promise resolved with
  cause,       \* history: the event that ended the current probe
  lines,       \* history: the lines of the child's stdout handled by the probe
  alive,       \* per stack, its subprocess if it has not ended: "running",
               \* or "killed" once childProcess.kill() has signalled it
  idxRuns,     \* indexer: indexAllStacks calls made so far
  cacheFile,   \* cache/tool-index.json on disk
  cacheTmp,    \* cache/tool-index.json.tmp on disk
  cachePre,    \* history: cache/tool-index.json when the current write began
  seen         \* what another process last read from cache/tool-index.json

idxVars == <<idxConfig, secretsFile, configured, stackIds, xpc, pos, byStack,
             probed, spawned, child, resolvedP, timerArmed, requestId,
             pending, sent, probeResult, cause, lines, alive, idxRuns,
             cacheFile, cacheTmp, cachePre, seen>>

cfgVars == <<pc, op, mem, waits, opsDone, result, fdTarget, lockFile,
             tmpFile, cfgFile, commits, readAt, lastCommit, written,
             acqStart>>

\* ------------------------------------------------------------------------
\* Files of the config store
\* ------------------------------------------------------------------------
NoFile == <<"ENOENT">>
NoLock == [creator |-> "none", pid |-> "none"]
NoOp == [kind |-> "none", stack |-> "none"]
NoCommit == [by |-> "none", readAt |-> 0, n |-> 0]

\* createRudiConfig: the stacks object of a fresh config (insertion ordered keys)
createRudiConfig == << >>

\* JSON.stringify(config): an opening token, the stack keys in insertion
\* order, a closing token
Serialise(c) == <<"{">> \o c \o <<"}">>

RECURSIVE Dedup(_)
Dedup(s) ==
  IF s = << >> THEN << >>
  ELSE LET r == Dedup(SubSeq(s, 1, Len(s) - 1))
           x == s[Len(s)]
       IN IF \E i \in 1..Len(r) : r[i] = x THEN r ELSE Append(r, x)

\* JSON.parse succeeds on a document that is one complete object
ValidJson(f) ==
  /\ Len(f) >= 2
  /\ f[1] = "{"
  /\ f[Len(f)] = "}"
  /\ \A i \in 2..(Len(f) - 1) : f[i] \in Stacks

ParseJson(f) == Dedup(SubSeq(f, 2, Len(f) - 1))

\* write(fd, buf) at offset 0 of a file that already holds old
Overlay(buf, old) ==
  IF Len(buf) >= Len(old) THEN buf
  ELSE buf \o SubSeq(old, Len(buf) + 1, Len(old))

\* the modifier of addStack: config.stacks[stackId] = {...}
addStack(c, s) ==
  IF \E i \in 1..Len(c) : c[i] = s THEN c ELSE Append(c, s)

\* the modifier of removeStack: delete config.stacks[stackId]
removeStack(c, s) == SelectSeq(c, LAMBDA x : x # s)

ApplyModifier(c, m) ==
  IF m.kind = "add" THEN addStack(c, m.stack) ELSE removeStack(c, m.stack)

Modifiers == [kind : {"add", "remove"}, stack : Stacks]

\* variant of the probe that takes every pid for a running process
PidAliveAll(pid) == TRUE

\* process.kill(pid, 0) succeeds: the pid parses as a number and names a
\* running process
PidAlive(pid) == pid \in Procs

\* ------------------------------------------------------------------------
\* updateRudiConfig / writeRudiConfig / acquireLock / releaseLock
\* ------------------------------------------------------------------------
\* calls of updateRudiConfig entered so far, over all processes
CallsStarted ==
  LET inCall(p) == IF pc[p] = "idle" THEN 0 ELSE 1
  IN opsDone["p1"] + opsDone["p2"] + inCall("p1") + inCall("p2")

LockedSection == {"tmp_open", "tmp_write", "rename", "chmod", "release"}

CfgInit ==
  /\ pc = [p \in Procs |-> "idle"]
  /\ op = [p \in Procs |-> NoOp]
  /\ mem = [p \in Procs |-> << >>]
  /\ waits = [p \in Procs |-> 0]
  /\ opsDone = [p \in Procs |-> 0]
  /\ result = [p \in Procs |-> "none"]
  /\ fdTarget = [p \in Procs |-> "none"]
  /\ lockFile \in {NoLock, [creator |-> DeadPid, pid |-> DeadPid]}
  /\ tmpFile = NoFile
  /\ cfgFile = NoFile
  /\ commits = 0
  /\ readAt = [p \in Procs |-> 0]
  /\ lastCommit = NoCommit
  /\ written = {}
  /\ acqStart = [p \in Procs |-> "none"]

\* a caller enters updateRudiConfig(modifier)
UpdateStart(p, m) ==
  /\ UNCHANGED acqStart
  /\ pc[p] = "idle"
  /\ CallsStarted < MaxOps
  /\ pc' = [pc EXCEPT ![p] = "read"]
  /\ op' = [op EXCEPT ![p] = m]
  /\ result' = [result EXCEPT ![p] = "none"]
  /\ UNCHANGED <<mem, waits, opsDone, fdTarget, lockFile, tmpFile, cfgFile,
                 commits, readAt, lastCommit, written>>

\* readRudiConfig() || createRudiConfig(), then modifier(config); the lock
\* is not held yet
ReadConfig(p) ==
  /\ pc[p] = "read"
  /\ IF cfgFile # NoFile /\ ~ValidJson(cfgFile)
     THEN /\ pc' = [pc EXCEPT ![p] = "idle"]
          /\ result' = [result EXCEPT ![p] = "read_error"]
          /\ opsDone' = [opsDone EXCEPT ![p] = @ + 1]
          /\ UNCHANGED <<mem, readAt, waits, acqStart>>
     ELSE /\ acqStart' = [acqStart EXCEPT ![p] =
                IF lockFile = NoLock THEN "none"
                ELSE IF lockFile.creator = DeadPid THEN "stale"
                ELSE lockFile.creator]
          /\ mem' = [mem EXCEPT ![p] =
                ApplyModifier(IF cfgFile = NoFile THEN createRudiConfig
                              ELSE ParseJson(cfgFile), op[p])]
          /\ readAt' = [readAt EXCEPT ![p] = commits]
          /\ waits' = [waits EXCEPT ![p] = 0]
          /\ pc' = [pc EXCEPT ![p] = "create"]
          /\ UNCHANGED <<result, opsDone>>
  /\ UNCHANGED <<op, fdTarget, lockFile, tmpFile, cfgFile, commits,
                 lastCommit, written>>

\* acquireLock: the loop condition fails, writeRudiConfig throws
LockTimeout(p) ==
  /\ acqStart' = [acqStart EXCEPT ![p] = "none"]
  /\ pc[p] = "create"
  /\ waits[p] >= 1
  /\ pc' = [pc EXCEPT ![p] = "idle"]
  /\ result' = [result EXCEPT ![p] = "lock_timeout"]
  /\ opsDone' = [opsDone EXCEPT ![p] = @ + 1]
  /\ UNCHANGED <<op, mem, waits, fdTarget, lockFile, tmpFile, cfgFile,
                 commits, readAt, lastCommit, written>>

\* acquireLock: open(lock, O_CREAT|O_EXCL), the first half of writeFileSync
TryCreate(p) ==
  /\ UNCHANGED acqStart
  /\ pc[p] = "create"
  /\ waits[p] < MaxWaits
  /\ IF lockFile = NoLock
     THEN /\ lockFile' = [creator |-> p, pid |-> ""]
          /\ pc' = [pc EXCEPT ![p] = "write_pid"]
     ELSE /\ pc' = [pc EXCEPT ![p] = "read_lock"]
          /\ UNCHANGED lockFile
  /\ UNCHANGED <<op, mem, waits, opsDone, result, fdTarget, tmpFile, cfgFile,
                 commits, readAt, lastCommit, written>>

\* acquireLock: write(fd, pid) and close, the second half of writeFileSync;
\* the bytes go to the file this process created, wherever it is now
WritePid(p) ==
  /\ UNCHANGED acqStart
  /\ pc[p] = "write_pid"
  /\ lockFile' = IF lockFile.creator = p THEN [lockFile EXCEPT !.pid = p]
                 ELSE lockFile
  /\ pc' = [pc EXCEPT ![p] = "tmp_open"]
  /\ UNCHANGED <<op, mem, waits, opsDone, result, fdTarget, tmpFile, cfgFile,
                 commits, readAt, lastCommit, written>>

\* acquireLock, EEXIST branch: read the pid and probe it with signal 0
ReadLock(p) ==
  /\ UNCHANGED acqStart
  /\ pc[p] = "read_lock"
  /\ pc' = [pc EXCEPT ![p] =
        IF lockFile = NoLock THEN "wait"
        ELSE IF PidAlive(lockFile.pid) THEN "wait" ELSE "unlink_stale"]
  /\ UNCHANGED <<op, mem, waits, opsDone, result, fdTarget, lockFile, tmpFile,
                 cfgFile, commits, readAt, lastCommit, written>>

\* acquireLock: unlinkSync(lock) of a lock judged stale, then continue
UnlinkStale(p) ==
  /\ UNCHANGED acqStart
  /\ pc[p] = "unlink_stale"
  /\ IF lockFile # NoLock
     THEN /\ lockFile' = NoLock
          /\ pc' = [pc EXCEPT ![p] = "create"]
     ELSE /\ pc' = [pc EXCEPT ![p] = "wait"]
          /\ UNCHANGED lockFile
  /\ UNCHANGED <<op, mem, waits, opsDone, result, fdTarget, tmpFile, cfgFile,
                 commits, readAt, lastCommit, written>>

\* acquireLock: Atomics.wait for 50ms, back to the loop head
WaitRetry(p) ==
  /\ UNCHANGED acqStart
  /\ pc[p] = "wait"
  /\ waits' = [waits EXCEPT ![p] = IF @ < MaxWaits THEN @ + 1 ELSE @]
  /\ pc' = [pc EXCEPT ![p] = "create"]
  /\ UNCHANGED <<op, mem, opsDone, result, fdTarget, lockFile, tmpFile,
                 cfgFile, commits, readAt, lastCommit, written>>

\* variant without the finally: a throw leaves writeRudiConfig at once
onWriteThrowReturn == "idle"

\* try { ... } finally { releaseLock() }: a throw inside the try block goes
\* through releaseLock before it leaves writeRudiConfig
onWriteThrow == "release"

\* writeRudiConfig: open(tmp, O_WRONLY|O_CREAT|O_TRUNC)
TmpOpen(p) ==
  /\ UNCHANGED acqStart
  /\ pc[p] = "tmp_open"
  /\ tmpFile' = << >>
  /\ fdTarget' = [fdTarget EXCEPT ![p] = "tmp"]
  /\ written' = written \cup {Serialise(mem[p])}
  /\ pc' = [pc EXCEPT ![p] = "tmp_write"]
  /\ UNCHANGED <<op, mem, waits, opsDone, result, lockFile, cfgFile, commits,
                 readAt, lastCommit>>

\* writeRudiConfig: write(fd, content) and close
TmpWrite(p) ==
  /\ UNCHANGED acqStart
  /\ pc[p] = "tmp_write"
  /\ tmpFile' = IF fdTarget[p] = "tmp"
                THEN Overlay(Serialise(mem[p]), tmpFile) ELSE tmpFile
  /\ cfgFile' = IF fdTarget[p] = "cfg"
                THEN Overlay(Serialise(mem[p]), cfgFile) ELSE cfgFile
  /\ fdTarget' = [fdTarget EXCEPT ![p] = "none"]
  /\ pc' = [pc EXCEPT ![p] = "rename"]
  /\ UNCHANGED <<op, mem, waits, opsDone, result, lockFile, commits, readAt,
                 lastCommit, written>>

\* writeRudiConfig: renameSync(tmp, rudi.json); ENOENT goes to finally
Rename(p) ==
  /\ UNCHANGED acqStart
  /\ pc[p] = "rename"
  /\ IF tmpFile = NoFile
     THEN /\ pc' = [pc EXCEPT ![p] = onWriteThrow]
          /\ result' = [result EXCEPT ![p] = "io_error"]
          /\ UNCHANGED <<tmpFile, cfgFile, fdTarget, commits, lastCommit>>
     ELSE /\ cfgFile' = tmpFile
          /\ tmpFile' = NoFile
          /\ fdTarget' = [q \in Procs |->
                IF fdTarget[q] = "tmp" THEN "cfg"
                ELSE IF fdTarget[q] = "cfg" THEN "orphan" ELSE fdTarget[q]]
          /\ commits' = commits + 1
          /\ lastCommit' = [by |-> p, readAt |-> readAt[p], n |-> commits + 1]
          /\ pc' = [pc EXCEPT ![p] = "chmod"]
          /\ result' = [result EXCEPT ![p] = "ok"]
  /\ UNCHANGED <<op, mem, waits, opsDone, lockFile, readAt, written>>

\* writeRudiConfig: chmodSync(rudi.json, CONFIG_MODE)
Chmod(p) ==
  /\ UNCHANGED acqStart
  /\ pc[p] = "chmod"
  /\ pc' = [pc EXCEPT ![p] = "release"]
  /\ UNCHANGED <<op, mem, waits, opsDone, result, fdTarget, lockFile, tmpFile,
                 cfgFile, commits, readAt, lastCommit, written>>

\* writeRudiConfig: writeFileSync(tmp) or chmodSync throws (disk full, no
\* permission); the descriptor is closed and the finally block runs
WriteThrows(p) ==
  /\ UNCHANGED acqStart
  /\ pc[p] \in {"tmp_open", "tmp_write", "chmod"}
  /\ pc' = [pc EXCEPT ![p] = onWriteThrow]
  /\ result' = [result EXCEPT ![p] = "io_error"]
  /\ fdTarget' = [fdTarget EXCEPT ![p] = "none"]
  /\ UNCHANGED <<op, mem, waits, opsDone, lockFile, tmpFile, cfgFile, commits,
                 readAt, lastCommit, written>>

\* releaseLock: unlinkSync(lock), errors ignored
ReleaseLock(p) ==
  /\ acqStart' = [q \in Procs |-> IF q = p \/ acqStart[q] = p THEN "none" ELSE acqStart[q]]
  /\ pc[p] = "release"
  /\ lockFile' = NoLock
  /\ pc' = [pc EXCEPT ![p] = "idle"]
  /\ opsDone' = [opsDone EXCEPT ![p] = @ + 1]
  /\ UNCHANGED <<op, mem, waits, result, fdTarget, tmpFile, cfgFile, commits,
                 readAt, lastCommit, written>>

CfgNext ==
  \E p \in Procs :
    \/ \E m \in Modifiers : UpdateStart(p, m)
    \/ ReadConfig(p)
    \/ LockTimeout(p)
    \/ TryCreate(p)
    \/ WritePid(p)
    \/ ReadLock(p)
    \/ UnlinkStale(p)
    \/ WaitRetry(p)
    \/ TmpOpen(p)
    \/ TmpWrite(p)
    \/ Rename(p)
    \/ Chmod(p)
    \/ ReleaseLock(p)


\* ------------------------------------------------------------------------
\* Installer, resolver, lockfiles
\* ------------------------------------------------------------------------
MaxInstallOps == 3

Pkg(k, n) == [kind |-> k, name |-> n]

\* PACKAGE_KINDS of the env module
PACKAGE_KINDS == {"stack", "prompt", "runtime", "tool", "agent"}

\* parsePackageId throws unless the prefix is one of PACKAGE_KINDS
ParseThrows(id) == id.kind \notin PACKAGE_KINDS

\* isPackageInstalled: existsSync(getPackagePath(id)); getPackagePath parses
\* the id first
isPackageInstalled(id) ==
  IF ParseThrows(id) THEN "throws"
  ELSE IF id \in dirs THEN "true" ELSE "false"

\* lock directory used by writeLockfile
LockKindWrite(kind) ==
  IF kind = "binary" THEN "binaries"
  ELSE CASE kind = "stack" -> "stacks"
         [] kind = "prompt" -> "prompts"
         [] kind = "runtime" -> "runtimes"
         [] kind = "tool" -> "tools"
         [] kind = "agent" -> "agents"
         [] OTHER -> "unknowns"

\* lock directory used by uninstallPackage and getLockfilePath: kind + 's'
LockKindPlain(kind) ==
  CASE kind = "stack" -> "stacks"
    [] kind = "prompt" -> "prompts"
    [] kind = "runtime" -> "runtimes"
    [] kind = "tool" -> "tools"
    [] kind = "agent" -> "agents"
    [] kind = "binary" -> "binarys"
    [] OTHER -> "unknowns"

getLockfilePath(id) == <<LockKindPlain(id.kind), id.name>>

\* hasLockfile(id) / readLockfile(id) # null
hasLockfile(id) ==
  IF ParseThrows(id) THEN "throws"
  ELSE IF getLockfilePath(id) \in lockfiles THEN "true" ELSE "false"

\* the registry index: descriptors with their requires lists and install hints
NoRequires == [runtimes |-> << >>, binaries |-> << >>, agents |-> << >>]

Descriptor(req, npm, pip, path) ==
  [requires |-> req, npmPackage |-> npm, pipPackage |-> pip, path |-> path]

RegistryIds ==
  { Pkg("stack", "demo"), Pkg("stack", "media"), Pkg("stack", "cli"),
    Pkg("prompt", "note"), Pkg("runtime", "node"), Pkg("agent", "claude"),
    Pkg("agent", "aider"), Pkg("binary", "rg") }

Registry ==
  [id \in RegistryIds |->
     CASE id = Pkg("stack", "demo") ->
            Descriptor([runtimes |-> <<"node", "node">>, binaries |-> << >>,
                        agents |-> <<"claude">>], FALSE, FALSE, TRUE)
       [] id = Pkg("stack", "media") ->
            Descriptor([runtimes |-> <<"python", "node">>, binaries |-> << >>,
                        agents |-> << >>], FALSE, FALSE, TRUE)
       [] id = Pkg("stack", "cli") ->
            Descriptor([runtimes |-> << >>, binaries |-> <<"rg">>,
                        agents |-> << >>], FALSE, FALSE, TRUE)
       [] id = Pkg("agent", "claude") ->
            Descriptor(NoRequires, TRUE, FALSE, FALSE)
       [] id = Pkg("agent", "aider") ->
            Descriptor(NoRequires, FALSE, TRUE, FALSE)
       [] OTHER -> Descriptor(NoRequires, FALSE, FALSE, FALSE)]

\* ids a caller may pass to installPackage / uninstallPackage
Requestable == RegistryIds \cup {Pkg("stack", "ghost")}

\* getPackage: the descriptor of the registry section of that kind, or none
getPackageFound(id) == id \in RegistryIds

\* dependency ids a descriptor declares, normalised to their kind
DeclaredDeps(id) ==
  LET r == Registry[id].requires
  IN { Pkg("runtime", r.runtimes[i]) : i \in 1..Len(r.runtimes) } \cup
     { Pkg("binary", r.binaries[i]) : i \in 1..Len(r.binaries) } \cup
     { Pkg("agent", r.agents[i]) : i \in 1..Len(r.agents) }

\* one child node built by resolveDependencies
DepNode(id) ==
  [id |-> id, installed |-> (isPackageInstalled(id) = "true"),
   dependencies |-> << >>, npmPackage |-> FALSE, pipPackage |-> FALSE,
   path |-> FALSE]

RECURSIVE DepNodes(_, _)
DepNodes(kind, names) ==
  IF names = << >> THEN << >>
  ELSE LET id == Pkg(kind, Head(names))
       IN (IF getPackageFound(id) THEN <<DepNode(id)>> ELSE << >>)
          \o DepNodes(kind, Tail(names))

\* resolveDependencies: runtimes, then binaries, then agents; a name the
\* registry does not know adds no node, and isPackageInstalled throws on the
\* id of a binary that the registry knows
resolveDependenciesThrows(id) ==
  LET r == Registry[id].requires
  IN \E i \in 1..Len(r.binaries) :
        /\ getPackageFound(Pkg("binary", r.binaries[i]))
        /\ ParseThrows(Pkg("binary", r.binaries[i]))

resolveDependencies(id) ==
  LET r == Registry[id].requires
  IN DepNodes("runtime", r.runtimes) \o DepNodes("agent", r.agents)

\* resolvePackage throws: package not found, or an id that does not parse
resolvePackageThrows(id) ==
  \/ ~getPackageFound(id)
  \/ ParseThrows(id)
  \/ resolveDependenciesThrows(id)

resolvePackage(id) ==
  [id |-> id, installed |-> (isPackageInstalled(id) = "true"),
   dependencies |-> resolveDependencies(id),
   npmPackage |-> Registry[id].npmPackage,
   pipPackage |-> Registry[id].pipPackage,
   path |-> Registry[id].path]

\* getInstallOrder: depth-first, dependencies first, a visited set of ids,
\* nodes marked installed are left out
RECURSIVE visit(_, _)
RECURSIVE visitAll(_, _)
\* variant of visit that records the node before its dependencies
visitPreOrder(node, st) ==
  IF node.id \in st.visited THEN st
  ELSE LET st1 == [st EXCEPT !.visited = @ \cup {node.id},
                             !.order = IF ~node.installed
                                       THEN Append(@, node) ELSE @]
       IN visitAll(node.dependencies, st1)

visit(node, st) ==
  IF node.id \in st.visited THEN st
  ELSE LET st1 == [st EXCEPT !.visited = @ \cup {node.id}]
           st2 == visitAll(node.dependencies, st1)
       IN IF ~node.installed
          THEN [st2 EXCEPT !.order = Append(@, node)]
          ELSE st2

visitAll(nodes, st) ==
  IF nodes = << >> THEN st
  ELSE visitAll(Tail(nodes), visit(Head(nodes), st))

\* variant that puts the root into the order even when it is installed
getInstallOrderAll(root) ==
  visit([root EXCEPT !.installed = FALSE],
        [visited |-> {}, order |-> << >>]).order

getInstallOrder(root) == visit(root, [visited |-> {}, order |-> << >>]).order

\* installPackage, lines 55-58: with force the root is appended when missing
WithForce(order, root, f) ==
  IF f /\ ~(\E i \in 1..Len(order) : order[i].id = root.id)
  THEN Append(order, root) ELSE order

NoNode == [id |-> Pkg("none", "none"), installed |-> FALSE,
           dependencies |-> << >>, npmPackage |-> FALSE, pipPackage |-> FALSE,
           path |-> FALSE]
NoResult == [status |-> "none", id |-> Pkg("none", "none")]

\* variant in which a failed download fails the install
downloadFailedThrows(pkg, d, m) ==
  [threw |-> TRUE, how |-> "download", dirs |-> d, manifests |-> m]

\* installSinglePackage, the catch around downloadRuntime: mkdir and a
\* manifest.json with source "placeholder" and the error; success
downloadFailed(pkg, d, m) ==
  [threw |-> FALSE, how |-> "placeholder",
   dirs |-> d \cup {pkg.id}, manifests |-> m \cup {pkg.id}]

\* installSinglePackage(pkg, {force}) under one outcome of its external
\* step (npm, pip, tarball download, source download): the directory state
\* it leaves and whether it throws.  partial: the external step had created
\* the directory before it failed.
installSinglePackage(pkg, f, ok, partial, d, m) ==
  IF pkg.id \in d /\ ~f
  THEN [threw |-> FALSE, how |-> "skipped", dirs |-> d, manifests |-> m]
  ELSE IF pkg.id.kind \in {"runtime", "tool", "agent"}
  THEN IF pkg.npmPackage \/ pkg.pipPackage
       THEN IF ok
            THEN [threw |-> FALSE, how |-> "hint",
                  dirs |-> d \cup {pkg.id}, manifests |-> m \cup {pkg.id}]
            ELSE [threw |-> TRUE, how |-> "hint",
                  dirs |-> d \cup {pkg.id}, manifests |-> m]
       ELSE IF ok
            THEN \* downloadRuntime: rmSync, mkdirSync, tar, runtime.json
                 [threw |-> FALSE, how |-> "download",
                  dirs |-> d \cup {pkg.id}, manifests |-> m \ {pkg.id}]
            ELSE downloadFailed(pkg, d, m)
  ELSE IF pkg.path
  THEN IF ok
       THEN [threw |-> FALSE, how |-> "source",
             dirs |-> d \cup {pkg.id}, manifests |-> m \cup {pkg.id}]
       ELSE [threw |-> TRUE, how |-> "source",
             dirs |-> IF partial THEN d \cup {pkg.id} ELSE d, manifests |-> m]
  ELSE [threw |-> FALSE, how |-> "fallback",
        dirs |-> d \cup {pkg.id}, manifests |-> m \cup {pkg.id}]

\* installPackage, the catch of the loop: the error is returned at once and
\* nothing installed earlier is touched
\* variant that removes what the batch had installed before the error
afterInstallErrorRollback(d, done) ==
  d \ {done[i] : i \in 1..Len(done)}

afterInstallError(d, done) == d

InstInit ==
  /\ dirs = {}
  /\ manifests = {}
  /\ lockfiles = {}
  /\ ipc = "idle"
  /\ resolved = NoNode
  /\ force = FALSE
  /\ toInstall = << >>
  /\ results = << >>
  /\ ires = NoResult
  /\ lastSingle = NoResult
  /\ ures = NoResult
  /\ attempted = << >>
  /\ instOps = 0
  /\ second = FALSE

\* installPackage up to the loop: resolve, install order, early return
InstallBegin(id, f) ==
  /\ ipc = "idle"
  /\ instOps < MaxInstallOps
  /\ instOps' = instOps + 1
  /\ results' = << >>
  /\ attempted' = << >>
  /\ lastSingle' = NoResult
  /\ ures' = NoResult
  /\ force' = f
  /\ second' = (ires = [status |-> "success", id |-> id] /\ ~f)
  /\ IF resolvePackageThrows(id)
     THEN /\ ires' = [status |-> "threw", id |-> id]
          /\ UNCHANGED <<ipc, resolved, toInstall>>
     ELSE LET root == resolvePackage(id)
              order == getInstallOrder(root)
          IN /\ resolved' = root
             /\ IF order = << >> /\ ~f
                THEN /\ ires' = [status |-> "alreadyInstalled", id |-> id]
                     /\ UNCHANGED <<ipc, toInstall>>
                ELSE /\ toInstall' = WithForce(order, root, f)
                     /\ ires' = NoResult
                     /\ ipc' = "installing"
  /\ UNCHANGED <<dirs, manifests, lockfiles>>

\* one iteration of the loop of installPackage
InstallNext(ok, partial) ==
  /\ ipc = "installing"
  /\ Len(attempted) < Len(toInstall)
  /\ LET pkg == toInstall[Len(attempted) + 1]
         r == installSinglePackage(pkg, force, ok, partial, dirs, manifests)
     IN /\ attempted' = Append(attempted, pkg.id)
        /\ manifests' = r.manifests
        /\ IF r.threw
           THEN /\ dirs' = afterInstallError(r.dirs, results)
                /\ ires' = [status |-> "failed", id |-> pkg.id]
                /\ lastSingle' = [status |-> "threw", id |-> pkg.id]
                /\ ipc' = "idle"
                /\ UNCHANGED results
           ELSE /\ dirs' = r.dirs
                /\ results' = Append(results, pkg.id)
                /\ lastSingle' = [status |-> r.how, id |-> pkg.id]
                /\ UNCHANGED <<ires, ipc>>
  /\ UNCHANGED <<lockfiles, resolved, force, toInstall, ures, instOps, second>>

\* installPackage after the loop: writeLockfile(resolved), success
InstallFinish ==
  /\ ipc = "installing"
  /\ Len(attempted) = Len(toInstall)
  /\ lockfiles' = lockfiles \cup
        {<<LockKindWrite(resolved.id.kind), resolved.id.name>>}
  /\ ires' = [status |-> "success", id |-> resolved.id]
  /\ ipc' = "idle"
  /\ UNCHANGED <<dirs, manifests, resolved, force, toInstall, results,
                 lastSingle, ures, attempted, instOps, second>>

\* uninstallPackage(id)
Uninstall(id) ==
  /\ ipc = "idle"
  /\ instOps < MaxInstallOps
  /\ instOps' = instOps + 1
  /\ ires' = NoResult
  /\ lastSingle' = NoResult
  /\ second' = FALSE
  /\ IF ParseThrows(id)
     THEN /\ ures' = [status |-> "threw", id |-> id]
          /\ UNCHANGED <<dirs, manifests, lockfiles>>
     ELSE IF id \notin dirs
     THEN /\ ures' = [status |-> "notInstalled", id |-> id]
          /\ UNCHANGED <<dirs, manifests, lockfiles>>
     ELSE /\ dirs' = dirs \ {id}
          /\ manifests' = manifests \ {id}
          /\ lockfiles' = lockfiles \ {<<LockKindPlain(id.kind), id.name>>}
          /\ ures' = [status |-> "success", id |-> id]
  /\ UNCHANGED <<ipc, resolved, force, toInstall, results, attempted>>

\* ids of the stack.yaml manifests a caller may install from a directory
LocalIds == {Pkg("stack", "demo")}

\* installFromLocal(dir): the directory is copied over the install path and
\* .install-meta.json is added; manifest.json is there only when the source
\* directory had one
InstallFromLocal(id, withManifest) ==
  /\ ipc = "idle"
  /\ instOps < MaxInstallOps
  /\ ~ParseThrows(id)
  /\ instOps' = instOps + 1
  /\ dirs' = dirs \cup {id}
  /\ manifests' = IF withManifest THEN manifests \cup {id} ELSE manifests \ {id}
  /\ ires' = NoResult
  /\ lastSingle' = NoResult
  /\ ures' = NoResult
  /\ second' = FALSE
  /\ UNCHANGED <<lockfiles, ipc, resolved, force, toInstall, results,
                 attempted>>

InstNext ==
  \/ \E id \in LocalIds, withManifest \in BOOLEAN :
        InstallFromLocal(id, withManifest)
  \/ \E id \in Requestable, f \in BOOLEAN : InstallBegin(id, f)
  \/ \E ok \in BOOLEAN, partial \in BOOLEAN : InstallNext(ok, partial)
  \/ InstallFinish
  \/ \E id \in Requestable : Uninstall(id)

\* ------------------------------------------------------------------------
\* MCP tool indexer
\* ------------------------------------------------------------------------
MaxIndexRuns == 1
MaxLines == 3

IdxStacks == {"a", "b"}
SecretNames == {"K1", "K2"}

\* stackConfig.secrets of the two stacks: {name, required}
StackSecrets(s) ==
  IF s = "a" THEN <<[name |-> "K1", required |-> "true"]>>
  ELSE <<[name |-> "K1", required |-> "false"],
         [name |-> "K2", required |-> "true"]>>

\* shapes of a stack entry in rudi.json
StackShapes == {"ok", "nolaunch", "notinstalled", "absent"}

\* readRudiConfig() returned null: rudi.json does not exist
NullConfig == [s \in IdxStacks |-> "nofile"]

\* filters a caller may pass as options.stacks; "default" is Object.keys
Filters == {"default", "ab", "ba", "ghost_a"}

NoEntry == [tools |-> "none", error |-> "none", missingSecrets |-> << >>]
NoProbe == [tools |-> "none", error |-> "none", missingSecrets |-> << >>]

\* allSecrets[name] && allSecrets[name].trim() !== ''
HasValue(v) == v = "value"

\* variant of getStackSecrets without the trim() test
RECURSIVE getMissingNoTrim(_, _)
getMissingNoTrim(defs, file) ==
  IF defs = << >> THEN << >>
  ELSE LET def == Head(defs)
           required == def.required # "false"
       IN (IF file[def.name] = "unset" /\ required
           THEN <<def.name>> ELSE << >>)
          \o getMissingNoTrim(Tail(defs), file)

\* getStackSecrets(stackConfig).missing: required names without a value
RECURSIVE getMissing(_, _)
getMissing(defs, file) ==
  IF defs = << >> THEN << >>
  ELSE LET def == Head(defs)
           required == def.required # "false"
       IN (IF ~HasValue(file[def.name]) /\ required
           THEN <<def.name>> ELSE << >>)
          \o getMissing(Tail(defs), file)

\* Object.keys(config.stacks) or the filter
StackIdsOf(filter, cfg) ==
  CASE filter = "ab" -> <<"a", "b">>
    [] filter = "ba" -> <<"b", "a">>
    [] filter = "ghost_a" -> <<"ghost", "a">>
    [] OTHER -> SelectSeq(<<"a", "b">>, LAMBDA s : cfg[s] # "absent")

\* the file is written in this many write() calls
CacheChunks == 2

\* JSON.stringify(index, null, 2) with index.updatedAt refreshed
CacheContent(bs, at) == [byStack |-> bs, updatedAt |-> at]

\* a file holding the first len chunks of the serialisation of doc
CacheFileOf(doc, len) == [exists |-> TRUE, doc |-> doc, len |-> len]

NoCache ==
  [exists |-> FALSE,
   doc |-> CacheContent([s \in IdxStacks |-> NoEntry], 0),
   len |-> 0]

\* createToolIndex() as an earlier run that indexed nothing left it on disk
EmptyCache ==
  CacheFileOf(CacheContent([s \in IdxStacks |-> NoEntry], 0), CacheChunks)

\* fs.readFileSync + JSON.parse succeed on the whole serialisation only
CacheComplete(f) == f.exists /\ f.len = CacheChunks

cacheVars == <<cacheFile, cacheTmp, cachePre, seen>>

IdxInit ==
  /\ cacheFile \in {NoCache, EmptyCache}
  /\ cacheTmp = NoCache
  /\ cachePre = NoCache
  /\ seen = NoCache
  /\ idxConfig \in {NullConfig} \cup [IdxStacks -> StackShapes]
  /\ secretsFile \in [SecretNames -> {"unset", "blank", "value"}]
  /\ configured \in [SecretNames -> BOOLEAN]
  /\ stackIds = << >>
  /\ xpc = "idle"
  /\ pos = 1
  /\ byStack = [s \in IdxStacks |-> NoEntry]
  /\ probed = {}
  /\ spawned = {}
  /\ child = "none"
  /\ resolvedP = FALSE
  /\ timerArmed = FALSE
  /\ requestId = 0
  /\ pending = {}
  /\ sent = << >>
  /\ probeResult = NoProbe
  /\ cause = [s \in IdxStacks |-> "none"]
  /\ lines = << >>
  /\ alive = [s \in IdxStacks |-> "none"]
  /\ idxRuns = 0

probeVars == <<child, resolvedP, timerArmed, requestId, pending, sent,
               probeResult, cause, lines>>

\* variant in which a failure of the stack rejects the probe promise
rejectWithError(kind) ==
  [rejected |-> TRUE,
   value |-> [tools |-> "empty", error |-> kind, missingSecrets |-> << >>]]

\* what the probe promise does with a failure of the stack: it resolves with
\* the error, it does not reject
resolveWithError(kind) ==
  [rejected |-> FALSE,
   value |-> [tools |-> "empty", error |-> kind, missingSecrets |-> << >>]]

\* variant of cleanup that leaves the child running
cleanupNoKill(c) == c

\* cleanup(): childProcess.kill() unless it was killed already
cleanup(c) == IF c = "running" THEN "killed" ELSE c

\* indexAllStacks up to the loop
IndexBegin(filter) ==
  /\ xpc = "idle"
  /\ idxRuns < MaxIndexRuns
  /\ idxRuns' = idxRuns + 1
  /\ probed' = {}
  /\ spawned' = {}
  /\ pos' = 1
  /\ IF idxConfig = NullConfig
     THEN /\ xpc' = "noconfig"
          /\ UNCHANGED stackIds
     ELSE /\ xpc' = "loop"
          /\ stackIds' = StackIdsOf(filter, idxConfig)
  /\ UNCHANGED <<cacheVars, idxConfig, secretsFile, configured, byStack, probeVars,
                 alive>>

\* loop body for a stack the config does not list or lists as not installed
SkipStack ==
  /\ xpc = "loop"
  /\ pos <= Len(stackIds)
  /\ \/ stackIds[pos] \notin IdxStacks
     \/ /\ stackIds[pos] \in IdxStacks
        /\ idxConfig[stackIds[pos]] \in {"absent", "notinstalled"}
  /\ pos' = pos + 1
  /\ UNCHANGED <<cacheVars, idxConfig, secretsFile, configured, stackIds, xpc, byStack,
                 probed, spawned, alive, idxRuns, probeVars>>

Eligible(s) == s \in IdxStacks /\ idxConfig[s] \in {"ok", "nolaunch"}

\* discoverStackTools up to and including spawn and the first send
ProbeStart(spawnThrows) ==
  /\ xpc = "loop"
  /\ pos <= Len(stackIds)
  /\ Eligible(stackIds[pos])
  /\ LET s == stackIds[pos]
         missing == getMissing(StackSecrets(s), secretsFile)
     IN IF idxConfig[s] = "nolaunch"
        THEN /\ probeResult' = [tools |-> "empty", error |-> "No launch configuration",
                                missingSecrets |-> << >>]
             /\ cause' = [cause EXCEPT ![s] = "nolaunch"]
             /\ resolvedP' = TRUE
             /\ UNCHANGED <<child, timerArmed, requestId, pending, sent, spawned, lines, alive>>
        ELSE IF missing # << >>
        THEN /\ probeResult' = [tools |-> "empty", error |-> "Missing required secrets",
                                missingSecrets |-> missing]
             /\ cause' = [cause EXCEPT ![s] = "missing"]
             /\ resolvedP' = TRUE
             /\ UNCHANGED <<child, timerArmed, requestId, pending, sent, spawned, lines, alive>>
        ELSE IF spawnThrows
        THEN /\ probeResult' = resolveWithError("Failed to spawn").value
             /\ cause' = [cause EXCEPT ![s] = "Failed to spawn"]
             /\ resolvedP' = TRUE
             /\ spawned' = spawned
             /\ UNCHANGED <<lines, alive>>
             /\ UNCHANGED <<child, timerArmed, requestId, pending, sent>>
        ELSE /\ child' = "running"
             /\ spawned' = spawned \cup {s}
             /\ alive' = [alive EXCEPT ![s] = "running"]
             /\ lines' = << >>
             /\ timerArmed' = TRUE
             /\ requestId' = 1
             /\ pending' = {1}
             /\ sent' = <<"initialize">>
             /\ resolvedP' = FALSE
             /\ cause' = [cause EXCEPT ![s] = "none"]
             /\ probeResult' = NoProbe
  /\ xpc' = "probing"
  /\ UNCHANGED <<cacheVars, idxConfig, secretsFile, configured, stackIds, pos, byStack,
                 probed, idxRuns>>

\* a failure of the stack reaches one of the handlers of the probe:
\* if (!resolved) { resolved = true; clearTimeout; resolve({tools: [], error}) }
FailProbe(kind, newChild) ==
  /\ child' = newChild
  /\ IF resolvedP
     THEN UNCHANGED <<resolvedP, timerArmed, probeResult, cause, xpc>>
     ELSE LET r == resolveWithError(kind)
          IN /\ resolvedP' = TRUE
             /\ timerArmed' = FALSE
             /\ cause' = [cause EXCEPT ![stackIds[pos]] = kind]
             /\ IF r.rejected
                THEN xpc' = "raised" /\ UNCHANGED probeResult
                ELSE probeResult' = r.value /\ UNCHANGED xpc

\* the subprocess of stack s after the handler has left the child in state c:
\* a process that had ended stays ended
Signalled(procs, s, c) ==
  [procs EXCEPT ![s] = IF @ = "none" \/ c \notin {"running", "killed"}
                       THEN "none" ELSE c]

\* ids a line of the child's stdout may carry; 0 is a line without an id
\* (a notification, or text that is not JSON)
LineIds == 0..3

\* variant of the lookup that takes the oldest pending request whatever the
\* id of the line
pendingGetOldest(id, pend) ==
  IF pend # {} THEN CHOOSE x \in pend : \A y \in pend : x <= y ELSE 0

\* pending.get(response.id): the pending request the line completes, 0 when
\* the line has no id or no pending request carries its id
pendingGet(id, pend) == IF id \in pend THEN id ELSE 0

\* if (p) { pending.delete(response.id); p.resolve(response.result) }: the
\* awaited send of request hit resumes the handshake
ResolveRequest(hit, tools, why) ==
  IF hit = 1
  THEN \* initialize completed: notification, then tools/list as request 2
       /\ sent' = sent \o <<"notifications/initialized", "tools/list">>
       /\ requestId' = requestId + 1
       /\ pending' = (pending \ {hit}) \cup {requestId + 1}
       /\ UNCHANGED <<child, resolvedP, timerArmed, probeResult, cause>>
  ELSE \* tools/list completed: resolve with the tools, cleanup()
       /\ pending' = pending \ {hit}
       /\ UNCHANGED <<sent, requestId>>
       /\ IF resolvedP
          THEN UNCHANGED <<child, resolvedP, timerArmed, probeResult, cause>>
          ELSE /\ resolvedP' = TRUE
               /\ timerArmed' = FALSE
               /\ child' = cleanup(child)
               /\ cause' = [cause EXCEPT ![stackIds[pos]] = why]
               /\ probeResult' = [tools |-> tools, error |-> "null",
                                  missingSecrets |-> << >>]

\* rl.on('line'): a response line carrying a result for request id
ChildResult(id) ==
  /\ xpc = "probing"
  /\ child = "running"
  /\ pendingGet(id, pending) # 0
  /\ lines' = Append(lines, [id |-> id, kind |-> "result"])
  /\ ResolveRequest(pendingGet(id, pending), "tools", "answered")
  /\ alive' = Signalled(alive, stackIds[pos], child')
  /\ UNCHANGED <<cacheVars, idxConfig, secretsFile, configured, stackIds, xpc, pos,
                 byStack, probed, spawned, idxRuns>>

\* rl.on('line'): a request of the server (id and method, neither result nor
\* error) whose id is the id of a pending request: response.error is
\* undefined, so the pending request is resolved with response.result, which
\* is undefined; (result?.tools || []) is then the empty list
ChildRequest(id) ==
  /\ xpc = "probing"
  /\ child = "running"
  /\ pendingGet(id, pending) # 0
  /\ lines' = Append(lines, [id |-> id, kind |-> "request"])
  /\ ResolveRequest(pendingGet(id, pending), "empty", "request")
  /\ alive' = Signalled(alive, stackIds[pos], child')
  /\ UNCHANGED <<cacheVars, idxConfig, secretsFile, configured, stackIds, xpc, pos,
                 byStack, probed, spawned, idxRuns>>

\* rl.on('line'): a line without an id, a line that is not JSON, or a line
\* whose id no pending request carries: nothing is done with it
ChildOther(id) ==
  /\ xpc = "probing"
  /\ child = "running"
  /\ Len(lines) < MaxLines
  /\ pendingGet(id, pending) = 0
  /\ lines' = Append(lines, [id |-> id, kind |-> "other"])
  /\ UNCHANGED <<cacheVars, idxConfig, secretsFile, configured, stackIds, xpc, pos,
                 byStack, probed, spawned, alive, idxRuns, child, resolvedP,
                 timerArmed, requestId, pending, sent, probeResult, cause>>

\* rl.on('line'): a response line carrying an error for request id; the
\* awaited send rejects and the catch of the handshake resolves the probe
ChildRpcError(id) ==
  /\ xpc = "probing"
  /\ child = "running"
  /\ pendingGet(id, pending) # 0
  /\ lines' = Append(lines, [id |-> id, kind |-> "error"])
  /\ pending' = pending \ {pendingGet(id, pending)}
  /\ FailProbe("RPC error", IF resolvedP THEN child ELSE cleanup(child))
  /\ alive' = Signalled(alive, stackIds[pos], child')
  /\ UNCHANGED <<cacheVars, idxConfig, secretsFile, configured, stackIds, pos, byStack,
                 probed, spawned, idxRuns, requestId, sent>>

\* childProcess.on('exit', code)
ChildExit(code) ==
  /\ xpc = "probing"
  /\ child = "running"
  /\ alive' = [alive EXCEPT ![stackIds[pos]] = "none"]
  /\ IF code # 0
     THEN FailProbe("Process exited with code", "exited")
     ELSE /\ child' = "exited"
          /\ UNCHANGED <<resolvedP, timerArmed, probeResult, cause, xpc>>
  /\ UNCHANGED <<cacheVars, idxConfig, secretsFile, configured, stackIds, pos, byStack,
                 probed, spawned, idxRuns, requestId, pending, sent, lines>>

\* childProcess.on('error', err): the process could not be started
ChildSpawnError ==
  /\ xpc = "probing"
  /\ child = "running"
  /\ sent = <<"initialize">>
  /\ lines = << >>
  /\ alive' = [alive EXCEPT ![stackIds[pos]] = "none"]
  /\ FailProbe("Spawn error", "failed")
  /\ UNCHANGED <<cacheVars, idxConfig, secretsFile, configured, stackIds, pos, byStack,
                 probed, spawned, idxRuns, requestId, pending, sent, lines>>

\* the setTimeout callback
TimeoutFire ==
  /\ xpc = "probing"
  /\ timerArmed
  /\ FailProbe("Timeout", cleanup(child))
  /\ alive' = Signalled(alive, stackIds[pos], child')
  /\ UNCHANGED <<cacheVars, idxConfig, secretsFile, configured, stackIds, pos, byStack,
                 probed, spawned, idxRuns, requestId, pending, sent, lines>>

\* a subprocess that childProcess.kill() has signalled ends; nothing in the
\* indexer waits for it
ChildTerminated(s) ==
  /\ alive[s] = "killed"
  /\ alive' = [alive EXCEPT ![s] = "none"]
  /\ UNCHANGED <<cacheVars, idxConfig, secretsFile, configured, stackIds, xpc, pos,
                 byStack, probed, spawned, idxRuns, probeVars>>

\* indexAllStacks after the await: index.byStack[stackId] = {...}
RecordResult ==
  /\ xpc = "probing"
  /\ resolvedP
  /\ byStack' = [byStack EXCEPT ![stackIds[pos]] = probeResult]
  /\ probed' = probed \cup {stackIds[pos]}
  /\ pos' = pos + 1
  /\ xpc' = "loop"
  /\ child' = "none"
  /\ resolvedP' = FALSE
  /\ timerArmed' = FALSE
  /\ requestId' = 0
  /\ pending' = {}
  /\ sent' = << >>
  /\ probeResult' = NoProbe
  /\ lines' = << >>
  /\ UNCHANGED <<cacheVars, idxConfig, secretsFile, configured, stackIds, spawned,
                 alive, idxRuns, cause>>

\* indexAllStacks after the loop: writeToolIndex(index) serialises the index
\* and opens the tmp file, which creates or truncates it
IndexFinish ==
  /\ xpc = "loop"
  /\ pos > Len(stackIds)
  /\ xpc' = "writing"
  /\ cacheTmp' = CacheFileOf(CacheContent(byStack, idxRuns), 0)
  /\ cachePre' = cacheFile
  /\ UNCHANGED <<cacheFile, seen, idxConfig, secretsFile, configured, stackIds,
                 pos, byStack, probed, spawned, alive, idxRuns, probeVars>>

\* writeToolIndex: one write() of fs.writeFileSync(TOOL_INDEX_TMP, content)
CacheTmpWrite ==
  /\ xpc = "writing"
  /\ cacheTmp.len < CacheChunks
  /\ cacheTmp' = [cacheTmp EXCEPT !.len = @ + 1]
  /\ UNCHANGED <<cacheFile, cachePre, seen, idxConfig, secretsFile, configured,
                 stackIds, xpc, pos, byStack, probed, spawned, alive, idxRuns,
                 probeVars>>

\* variant that renames the tmp file before writeFileSync has written it all
renameEarly(f) == TRUE

\* renameSync runs once writeFileSync has returned, the content written
renameReady(f) == f.len = CacheChunks

\* writeToolIndex: fs.renameSync(TOOL_INDEX_TMP, TOOL_INDEX_PATH), return
CacheRename ==
  /\ xpc = "writing"
  /\ renameReady(cacheTmp)
  /\ cacheFile' = cacheTmp
  /\ cacheTmp' = NoCache
  /\ xpc' = "done"
  /\ UNCHANGED <<cachePre, seen, idxConfig, secretsFile, configured, stackIds,
                 pos, byStack, probed, spawned, alive, idxRuns, probeVars>>

\* another process reads cache/tool-index.json (readToolIndex)
ReaderRead ==
  /\ seen' = cacheFile
  /\ UNCHANGED <<cacheFile, cacheTmp, cachePre, idxConfig, secretsFile,
                 configured, stackIds, xpc, pos, byStack, probed, spawned,
                 alive, idxRuns, probeVars>>

\* the caller takes the result; a later call may follow
IndexReturn ==
  /\ xpc \in {"done", "noconfig"}
  /\ xpc' = "idle"
  /\ UNCHANGED <<cacheVars, idxConfig, secretsFile, configured, stackIds, pos, byStack,
                 probed, spawned, alive, idxRuns, probeVars>>

IdxNext ==
  \/ \E filter \in Filters : IndexBegin(filter)
  \/ SkipStack
  \/ \E spawnThrows \in BOOLEAN : ProbeStart(spawnThrows)
  \/ \E id \in LineIds : ChildResult(id)
  \/ \E id \in LineIds : ChildRpcError(id)
  \/ \E code \in 0..1 : ChildExit(code)
  \/ ChildSpawnError
  \/ TimeoutFire
  \/ RecordResult
  \/ IndexFinish
  \/ CacheTmpWrite
  \/ CacheRename
  \/ ReaderRead
  \/ IndexReturn

\* ------------------------------------------------------------------------
\* Agent registrar
\* ------------------------------------------------------------------------
MaxRegOps == 3

VARIABLES
  tomlFile,    \* registrar: ~/.codex/config.toml, sections of key = value lines
  jsonFile,    \* registrar: the JSON agent's settings file, same layout
  lastReg,     \* history: stack and manifest of the latest registerMcpAll
  repeated,    \* history: the latest call repeated the one before it
  prevToml,    \* history: config.toml before the latest call
  prevJson,    \* history: the JSON settings before the latest call
  regOps,      \* registrar: registerMcpAll calls made so far
  agentFiles,  \* registrar: the agents whose config file exists
  desktopFile, \* registrar: claude_desktop_config.json, same layout
  regResults,  \* registrar: the result map of the latest registerMcpAll
  lastUnreg    \* history: the stack of the latest call if it was
               \* unregisterMcpAll, "none" otherwise

regVars == <<tomlFile, jsonFile, lastReg, repeated, prevToml, prevJson, regOps,
             agentFiles, desktopFile, regResults, lastUnreg>>

\* AGENT_CONFIGS: the agents of the manifest that the model follows
AgentIds == {"claude-desktop", "claude-code", "codex"}

\* characters of the strings: a letter, the backslash and the double quote
BS == "bs"
DQ == "dq"

RegStacks == {"x", "y"}

\* manifest.command[0] and the rest of manifest.command
ManifestCommands == {<<"a">>, <<"a", BS>>, <<DQ, "a">>}
ManifestArgs == {<< >>, << <<"a">> >>, << <<"a", DQ>> >>}

\* installPath of a stack
InstallPathOf(id) == <<"a", "a">>

StrVal(chars) == [t |-> "str", v |-> chars]
ArrVal(items) == [t |-> "arr", v |-> items]

\* value.replace(/\\/g, '\\\\').replace(/"/g, '\\"'), also what
\* JSON.stringify does to these two characters
RECURSIVE escapeChars(_)
escapeChars(chars) ==
  IF chars = << >> THEN << >>
  ELSE (IF Head(chars) \in {BS, DQ} THEN <<BS, Head(chars)>> ELSE <<Head(chars)>>)
       \o escapeChars(Tail(chars))

\* JSON.parse of the inside of a string literal
RECURSIVE unescapeChars(_)
unescapeChars(chars) ==
  IF chars = << >> THEN << >>
  ELSE IF Head(chars) = BS /\ Len(chars) >= 2
       THEN <<chars[2]>> \o unescapeChars(Tail(Tail(chars)))
       ELSE <<Head(chars)>> \o unescapeChars(Tail(chars))

quoted(chars) == <<DQ>> \o escapeChars(chars) \o <<DQ>>

RECURSIVE joinItems(_)
joinItems(items) ==
  IF items = << >> THEN << >>
  ELSE IF Len(items) = 1 THEN quoted(items[1])
  ELSE quoted(items[1]) \o <<",", " ">> \o joinItems(Tail(items))

\* tomlValue(value): a string or an array of strings
tomlValue(val) ==
  IF val.t = "str" THEN quoted(val.v)
  ELSE <<"[">> \o joinItems(val.v) \o <<"]">>

\* the loop of parseTomlValue over the inside of an array
RECURSIVE tomlArrayItems(_, _, _)
tomlArrayItems(inner, current, inQuote) ==
  IF inner = << >> THEN << >>
  ELSE LET char == Head(inner)
           rest == Tail(inner)
       IN IF char = DQ /\ ~inQuote THEN tomlArrayItems(rest, current, TRUE)
          ELSE IF char = DQ /\ inQuote
               THEN <<current>> \o tomlArrayItems(rest, << >>, FALSE)
          ELSE IF inQuote THEN tomlArrayItems(rest, current \o <<char>>, TRUE)
          ELSE tomlArrayItems(rest, current, FALSE)

\* parseTomlValue(value)
parseTomlValue(text) ==
  IF text # << >> /\ Head(text) = DQ /\ text[Len(text)] = DQ
  THEN StrVal(SubSeq(text, 2, Len(text) - 1))
  ELSE IF text # << >> /\ Head(text) = "[" /\ text[Len(text)] = "]"
  THEN ArrVal(tomlArrayItems(SubSeq(text, 2, Len(text) - 1), << >>, FALSE))
  ELSE StrVal(text)

\* JSON.stringify of a string or an array of strings
jsonValue(val) == tomlValue(val)

\* JSON.parse over the inside of an array: a backslash keeps the next
\* character inside the string
RECURSIVE jsonArrayItems(_, _, _)
jsonArrayItems(inner, current, inQuote) ==
  IF inner = << >> THEN << >>
  ELSE LET char == Head(inner)
           rest == Tail(inner)
       IN IF inQuote /\ char = BS /\ rest # << >>
          THEN jsonArrayItems(Tail(rest), current \o <<Head(rest)>>, TRUE)
          ELSE IF char = DQ /\ ~inQuote THEN jsonArrayItems(rest, current, TRUE)
          ELSE IF char = DQ /\ inQuote
               THEN <<current>> \o jsonArrayItems(rest, << >>, FALSE)
          ELSE IF inQuote THEN jsonArrayItems(rest, current \o <<char>>, TRUE)
          ELSE jsonArrayItems(rest, current, FALSE)

\* JSON.parse of a string or an array of strings
parseJsonValue(text) ==
  IF text # << >> /\ Head(text) = "["
  THEN ArrVal(jsonArrayItems(SubSeq(text, 2, Len(text) - 1), << >>, FALSE))
  ELSE StrVal(unescapeChars(SubSeq(text, 2, Len(text) - 1)))

\* readToml -> parseToml: every value text of every section parsed
readToml(file) ==
  [i \in 1..Len(file) |->
     [id |-> file[i].id,
      fields |-> [k \in 1..Len(file[i].fields) |->
                    [key |-> file[i].fields[k].key,
                     val |-> parseTomlValue(file[i].fields[k].text)]]]]

\* writeToml -> stringifyToml: every value of every section written
writeToml(config) ==
  [i \in 1..Len(config) |->
     [id |-> config[i].id,
      fields |-> [k \in 1..Len(config[i].fields) |->
                    [key |-> config[i].fields[k].key,
                     text |-> tomlValue(config[i].fields[k].val)]]]]

\* readJson -> JSON.parse
readJson(file) ==
  [i \in 1..Len(file) |->
     [id |-> file[i].id,
      fields |-> [k \in 1..Len(file[i].fields) |->
                    [key |-> file[i].fields[k].key,
                     val |-> parseJsonValue(file[i].fields[k].text)]]]]

\* writeJson -> JSON.stringify
writeJson(config) ==
  [i \in 1..Len(config) |->
     [id |-> config[i].id,
      fields |-> [k \in 1..Len(config[i].fields) |->
                    [key |-> config[i].fields[k].key,
                     text |-> jsonValue(config[i].fields[k].val)]]]]

\* buildMcpConfig: {command, cwd, args?}; Anthropic's agents add type
buildMcpConfig(id, m, withType) ==
  <<[key |-> "command", val |-> StrVal(m.command)],
    [key |-> "cwd", val |-> StrVal(InstallPathOf(id))]>>
  \o (IF m.args # << >> THEN <<[key |-> "args", val |-> ArrVal(m.args)]>> ELSE << >>)
  \o (IF withType THEN <<[key |-> "type", val |-> StrVal(<<"a">>)]>> ELSE << >>)

\* servers[stackId] = mcpConfig: an existing key keeps its place
SetServer(config, id, entry) ==
  IF \E i \in 1..Len(config) : config[i].id = id
  THEN [i \in 1..Len(config) |->
          IF config[i].id = id THEN [id |-> id, fields |-> entry] ELSE config[i]]
  ELSE Append(config, [id |-> id, fields |-> entry])

registerMcpCodex(file, id, m) ==
  writeToml(SetServer(readToml(file), id, buildMcpConfig(id, m, FALSE)))

registerMcpGeneric(file, id, m) ==
  writeJson(SetServer(readJson(file), id, buildMcpConfig(id, m, TRUE)))

NoReg == [id |-> "none", command |-> << >>, args |-> << >>]

\* findAgentConfig(agent) # null: one of the agent's config paths exists
findAgentConfig(agent, files) == agent \in files

\* getInstalledAgentIds: the agents of the manifest whose config is found
getInstalledAgentIds(files) == {a \in AgentIds : findAgentConfig(a, files)}

\* registerMcpAll, the agents it loops over
AgentsToRegister(files) == getInstalledAgentIds(files)

\* registerMcpGeneric(agentId, ...), the result it returns
registerResult(agent, files) ==
  IF ~findAgentConfig(agent, files)
  THEN [success |-> TRUE, skipped |-> TRUE, reason |-> "Agent not installed"]
  ELSE [success |-> TRUE, skipped |-> FALSE, reason |-> "none"]

\* the registrar with every agent installed and nothing registered
RegQuiet ==
  /\ tomlFile = << >>
  /\ jsonFile = << >>
  /\ desktopFile = << >>
  /\ regResults = << >>
  /\ lastUnreg = "none"
  /\ lastReg = NoReg
  /\ repeated = FALSE
  /\ prevToml = << >>
  /\ prevJson = << >>
  /\ regOps = 0
  /\ agentFiles = AgentIds

RegInit ==
  /\ agentFiles \in SUBSET AgentIds
  /\ desktopFile = << >>
  /\ regResults = << >>
  /\ lastUnreg = "none"
  /\ tomlFile = << >>
  /\ jsonFile = << >>
  /\ lastReg = NoReg
  /\ repeated = FALSE
  /\ prevToml = << >>
  /\ prevJson = << >>
  /\ regOps = 0

\* registerMcpAll(stackId, installPath, manifest): registerMcpGeneric for
\* each agent of the list, its result stored under the agent's id
RegisterAll(id, m) ==
  /\ regOps < MaxRegOps
  /\ regOps' = regOps + 1
  /\ LET agents == AgentsToRegister(agentFiles)
         writes(a) == a \in agents /\ findAgentConfig(a, agentFiles)
     IN /\ tomlFile' = IF writes("codex")
                       THEN registerMcpCodex(tomlFile, id, m) ELSE tomlFile
        /\ jsonFile' = IF writes("claude-code")
                       THEN registerMcpGeneric(jsonFile, id, m) ELSE jsonFile
        /\ desktopFile' = IF writes("claude-desktop")
                          THEN registerMcpGeneric(desktopFile, id, m)
                          ELSE desktopFile
        /\ regResults' = [a \in agents |-> registerResult(a, agentFiles)]
  /\ UNCHANGED agentFiles
  /\ prevToml' = tomlFile
  /\ prevJson' = jsonFile
  /\ repeated' = (lastReg = [id |-> id, command |-> m.command, args |-> m.args])
  /\ lastReg' = [id |-> id, command |-> m.command, args |-> m.args]
  /\ lastUnreg' = "none"

\* settings[key][stackId] is there
HasServer(file, id) == \E i \in 1..Len(file) : file[i].id = id

\* delete servers[stackId]
RemoveServer(config, id) == SelectSeq(config, LAMBDA e : e.id # id)

\* unregisterMcpCodex: nothing is written when the server is not there
unregisterMcpCodex(file, id) ==
  IF ~HasServer(file, id) THEN file
  ELSE writeToml(RemoveServer(readToml(file), id))

\* unregisterMcpGeneric for a JSON agent
unregisterMcpGeneric(file, id) ==
  IF ~HasServer(file, id) THEN file
  ELSE writeJson(RemoveServer(readJson(file), id))

\* unregisterMcpAll(stackId): unregisterMcpGeneric for each installed agent
UnregisterAll(id) ==
  /\ regOps < MaxRegOps
  /\ regOps' = regOps + 1
  /\ LET agents == getInstalledAgentIds(agentFiles)
     IN /\ tomlFile' = IF "codex" \in agents
                       THEN unregisterMcpCodex(tomlFile, id) ELSE tomlFile
        /\ jsonFile' = IF "claude-code" \in agents
                       THEN unregisterMcpGeneric(jsonFile, id) ELSE jsonFile
        /\ desktopFile' = IF "claude-desktop" \in agents
                          THEN unregisterMcpGeneric(desktopFile, id)
                          ELSE desktopFile
  /\ prevToml' = tomlFile
  /\ prevJson' = jsonFile
  /\ repeated' = FALSE
  /\ lastReg' = NoReg
  /\ lastUnreg' = id
  /\ UNCHANGED <<agentFiles, regResults>>

RegNext ==
  \/ \E id \in RegStacks, command \in ManifestCommands, args \in ManifestArgs :
        RegisterAll(id, [command |-> command, args |-> args])
  \/ \E id \in RegStacks : UnregisterAll(id)

\* ------------------------------------------------------------------------
\* Session import
\* ------------------------------------------------------------------------
MaxImportOps == 2
MaxEvents == 4

VARIABLES
  transcripts, \* import: the provider's session files, file -> its events
  sessions,    \* import: the rows of table sessions with their turns rows
  lastImport,  \* history: what the latest importFromProviders met and did
  linesWritten,     \* import: events the agents have linesWritten so far
  impOps       \* import: importFromProviders calls made so far

impVars == <<transcripts, sessions, lastImport, linesWritten, impOps>>

Providers == {"claude", "codex"}

\* file names of the transcripts (the session id is the file's base name)
SessionIds == {"s1"}

\* a transcript line: a user message, a user entry carrying a tool result
\* (Claude) or a function call (Codex), an assistant message
EventKinds == {"user", "tool", "assistant"}

NoTranscript == <<"none">>

\* parseClaudeSession, one line: turnNumber counts the user messages that
\* are no tool results; an assistant message closes the open user message
ClaudeLine(st, e) ==
  IF e = "user"
  THEN [st EXCEPT !.turnNumber = @ + 1, !.current = st.turnNumber + 1]
  ELSE IF e = "assistant" /\ st.current # 0
  THEN [st EXCEPT !.turns = Append(@, st.current), !.current = 0]
  ELSE st

\* parseCodexSession, one line: a function call or an assistant text makes
\* the turn of the current user message unless that turn exists
CodexLine(st, e) ==
  IF e = "user"
  THEN [st EXCEPT !.turnNumber = @ + 1, !.current = st.turnNumber + 1]
  ELSE IF st.current # 0 /\ ~\E i \in 1..Len(st.turns) : st.turns[i] = st.current
  THEN [st EXCEPT !.turns = Append(@, st.current)]
  ELSE st

RECURSIVE ParseLines(_, _, _)
ParseLines(provider, events, st) ==
  IF events = << >> THEN st
  ELSE ParseLines(provider, Tail(events),
                  IF provider = "claude" THEN ClaudeLine(st, Head(events))
                  ELSE CodexLine(st, Head(events)))

\* the turnNumber of each turn that parse...Session returns, in push order
parseSession(provider, events) ==
  ParseLines(provider, events,
             [turnNumber |-> 0, current |-> 0, turns |-> << >>]).turns

\* SELECT id FROM sessions WHERE provider_session_id = ? [AND provider = ?]
existingRow(rows, provider, sessionId) ==
  IF provider = "claude"
  THEN \E i \in 1..Len(rows) : rows[i].provider_session_id = sessionId
  ELSE \E i \in 1..Len(rows) :
          rows[i].provider_session_id = sessionId /\ rows[i].provider = provider

NoImport ==
  [skipExisting |-> FALSE, skippedExisting |-> {}, pairExisted |-> {},
   skippedDead |-> {}, imported |-> {}]

\* import...Sessions, the body of the loop for one session file
ImportFile(st, provider, sessionId, events, skipExisting, skipDead) ==
  LET file == <<provider, sessionId>>
      turns == parseSession(provider, events)
      met == IF \E i \in 1..Len(st.rows) :
                    /\ st.rows[i].provider = provider
                    /\ st.rows[i].provider_session_id = sessionId
             THEN [st EXCEPT !.log.pairExisted = @ \cup {file}]
             ELSE st
  IN IF skipExisting /\ existingRow(st.rows, provider, sessionId)
     THEN [met EXCEPT !.log.skippedExisting = @ \cup {file}]
     ELSE IF skipDead /\ turns = << >>
     THEN [met EXCEPT !.log.skippedDead = @ \cup {file}]
     ELSE [met EXCEPT
             !.rows = Append(@, [provider |-> provider,
                                 provider_session_id |-> sessionId,
                                 turns |-> turns]),
             !.log.imported = @ \cup {file}]

\* import...Sessions(results, errors, options): the loop over the session
\* files of the provider's directory, which holds the one file s1
ImportProvider(st, provider, files, skipExisting, skipDead) ==
  IF files[<<provider, "s1">>] = NoTranscript THEN st
  ELSE ImportFile(st, provider, "s1", files[<<provider, "s1">>],
                  skipExisting, skipDead)

ImpInit ==
  /\ transcripts = [f \in Providers \X SessionIds |-> NoTranscript]
  /\ sessions = << >>
  /\ lastImport = NoImport
  /\ linesWritten = 0
  /\ impOps = 0

\* an agent starts a session: its transcript file appears
CreateTranscript(provider, sessionId) ==
  /\ transcripts[<<provider, sessionId>>] = NoTranscript
  /\ transcripts' = [transcripts EXCEPT ![<<provider, sessionId>>] = << >>]
  /\ UNCHANGED <<sessions, lastImport, linesWritten, impOps>>

\* an agent appends a line to a transcript
AppendEvent(provider, sessionId, e) ==
  /\ transcripts[<<provider, sessionId>>] # NoTranscript
  /\ linesWritten < MaxEvents
  /\ linesWritten' = linesWritten + 1
  /\ transcripts' = [transcripts EXCEPT ![<<provider, sessionId>>] = Append(@, e)]
  /\ UNCHANGED <<sessions, lastImport, impOps>>

\* importFromProviders({skipExisting, skipDead, provider}): Claude first,
\* then Codex
ImportFromProviders(which, skipExisting, skipDead) ==
  /\ impOps < MaxImportOps
  /\ impOps' = impOps + 1
  /\ LET st0 == [rows |-> sessions,
                 log |-> [NoImport EXCEPT !.skipExisting = skipExisting]]
         st1 == IF which \in {"all", "claude"}
                THEN ImportProvider(st0, "claude", transcripts,
                                    skipExisting, skipDead)
                ELSE st0
         st2 == IF which \in {"all", "codex"}
                THEN ImportProvider(st1, "codex", transcripts,
                                    skipExisting, skipDead)
                ELSE st1
     IN /\ sessions' = st2.rows
        /\ lastImport' = st2.log
  /\ UNCHANGED <<transcripts, linesWritten>>

ImpNext ==
  \/ \E provider \in Providers, sessionId \in SessionIds :
        CreateTranscript(provider, sessionId)
  \/ \E provider \in Providers, sessionId \in SessionIds, e \in EventKinds :
        AppendEvent(provider, sessionId, e)
  \/ \E which \in {"all"} \cup Providers, skipExisting \in BOOLEAN,
        skipDead \in BOOLEAN :
        ImportFromProviders(which, skipExisting, skipDead)

\* ------------------------------------------------------------------------
\* Database schema
\* ------------------------------------------------------------------------
MaxOpens == 2

SCHEMA_VERSION == 4

VARIABLES
  hasVersionTable, \* schema: table schema_version exists
  schemaVersions,  \* schema: the version numbers recorded in schema_version
  ddl,             \* schema: migrations whose statements are all in effect
  ddlPartial,      \* schema: migrations that stopped part of the way
  mpc,             \* schema: where initSchema / runMigrations stands
  mv,              \* schema: the loop variable v of runMigrations
  mfrom,           \* schema: currentVersion as initSchema read it
  migLog,          \* history: migrations completed by this initSchema call
  opens            \* schema: initSchema calls made so far

migVars == <<hasVersionTable, schemaVersions, ddl, ddlPartial, mpc, mv, mfrom,
             migLog, opens>>

\* the keys of the migrations object of runMigrations
Migrations == {2, 3, 4}

\* migrations that run outside db.transaction
Unwrapped == {4}

\* SELECT MAX(version) FROM schema_version, || 0
currentVersion(versions) ==
  IF versions = {} THEN 0
  ELSE CHOOSE v \in versions : \A w \in versions : w <= v

\* variant that records the version although the migration threw
afterThrowRecorded(v, versions) == versions \cup {v}

\* applyMigration when migrations[v](db) throws: the INSERT that follows it
\* is not reached (and a transaction is rolled back)
afterThrow(v, versions) == versions

\* the schema_version rows a database can hold between runs: none, or those
\* of an install at version k migrated up to version m
MigInit ==
  /\ hasVersionTable \in BOOLEAN
  /\ schemaVersions \in
        {{}} \cup {k..m : k \in 1..SCHEMA_VERSION, m \in 1..SCHEMA_VERSION}
  /\ ~hasVersionTable => schemaVersions = {}
  /\ ddl = {v \in Migrations : v <= currentVersion(schemaVersions)}
  /\ ddlPartial = {}
  /\ mpc = "closed"
  /\ mv = 0
  /\ mfrom = 0
  /\ migLog = << >>
  /\ opens = 0

MigQuiet ==
  /\ MigInit
  /\ hasVersionTable
  /\ schemaVersions = {SCHEMA_VERSION}

\* initSchema up to the call of runMigrations
InitSchema ==
  /\ mpc \in {"closed", "done", "failed"}
  /\ opens < MaxOpens
  /\ opens' = opens + 1
  /\ migLog' = << >>
  /\ IF ~hasVersionTable
     THEN \* fresh install: SCHEMA_SQL, then the current version is recorded
          /\ hasVersionTable' = TRUE
          /\ schemaVersions' = {SCHEMA_VERSION}
          /\ ddl' = Migrations
          /\ mpc' = "done"
          /\ mfrom' = SCHEMA_VERSION
          /\ UNCHANGED <<ddlPartial, mv>>
     ELSE /\ mfrom' = currentVersion(schemaVersions)
          /\ IF currentVersion(schemaVersions) < SCHEMA_VERSION
             THEN /\ mpc' = "migrating"
                  /\ mv' = currentVersion(schemaVersions) + 1
             ELSE /\ mpc' = "done"
                  /\ UNCHANGED mv
          /\ UNCHANGED <<hasVersionTable, schemaVersions, ddl, ddlPartial>>

\* runMigrations, one turn of the loop for a version without a migration
\* or with a migration inside db.transaction
MigrateWrapped(ok) ==
  /\ mpc = "migrating"
  /\ mv <= SCHEMA_VERSION
  /\ mv \notin Unwrapped
  /\ IF mv \notin Migrations
     THEN /\ mv' = mv + 1
          /\ UNCHANGED <<schemaVersions, ddl, mpc, migLog>>
     ELSE IF ok
     THEN /\ ddl' = ddl \cup {mv}
          /\ schemaVersions' = schemaVersions \cup {mv}
          /\ migLog' = Append(migLog, mv)
          /\ mv' = mv + 1
          /\ UNCHANGED mpc
     ELSE /\ schemaVersions' = afterThrow(mv, schemaVersions)
          /\ mpc' = "failed"
          /\ UNCHANGED <<ddl, mv, migLog>>
  /\ UNCHANGED <<hasVersionTable, ddlPartial, mfrom, opens>>

\* runMigrations, v = 4: migrations[4](db) on its own, no transaction
MigrateUnwrapped(ok) ==
  /\ mpc = "migrating"
  /\ mv <= SCHEMA_VERSION
  /\ mv \in Unwrapped
  /\ IF ok
     THEN /\ ddl' = ddl \cup {mv}
          /\ ddlPartial' = ddlPartial \ {mv}
          /\ migLog' = Append(migLog, mv)
          /\ mpc' = "recording"
          /\ UNCHANGED schemaVersions
     ELSE /\ ddlPartial' = ddlPartial \cup {mv}
          /\ schemaVersions' = afterThrow(mv, schemaVersions)
          /\ mpc' = "failed"
          /\ UNCHANGED <<ddl, migLog>>
  /\ UNCHANGED <<hasVersionTable, mv, mfrom, opens>>

\* runMigrations, v = 4: the INSERT INTO schema_version after the migration
RecordUnwrapped ==
  /\ mpc = "recording"
  /\ schemaVersions' = schemaVersions \cup {mv}
  /\ mv' = mv + 1
  /\ mpc' = "migrating"
  /\ UNCHANGED <<hasVersionTable, ddl, ddlPartial, mfrom, migLog, opens>>

\* the process dies between the migration and its INSERT
CrashUnwrapped ==
  /\ mpc = "recording"
  /\ mpc' = "failed"
  /\ UNCHANGED <<hasVersionTable, schemaVersions, ddl, ddlPartial, mv, mfrom,
                 migLog, opens>>

\* runMigrations returns, initSchema returns {version, migrated: true, from}
MigrateDone ==
  /\ mpc = "migrating"
  /\ mv > SCHEMA_VERSION
  /\ mpc' = "done"
  /\ UNCHANGED <<hasVersionTable, schemaVersions, ddl, ddlPartial, mv, mfrom,
                 migLog, opens>>

MigNext ==
  \/ InitSchema
  \/ \E ok \in BOOLEAN : MigrateWrapped(ok)
  \/ \E ok \in BOOLEAN : MigrateUnwrapped(ok)
  \/ RecordUnwrapped
  \/ CrashUnwrapped
  \/ MigrateDone

\* ------------------------------------------------------------------------
\* Package identifiers as strings
\* ------------------------------------------------------------------------
MaxNameLen == 2

VARIABLES
  pidInput,    \* package id: the (kind, name) handed to createPackageId
  pidString,   \* package id: the string createPackageId returned
  pidParsed    \* package id: what parsePackageId made of that string

pidVars == <<pidInput, pidString, pidParsed>>

\* the characters of a kind word
KindChars(kind) ==
  CASE kind = "stack" -> <<"s", "t", "a", "c", "k">>
    [] kind = "prompt" -> <<"p", "r", "o", "m", "p", "t">>
    [] kind = "runtime" -> <<"r", "u", "n", "t", "i", "m", "e">>
    [] kind = "tool" -> <<"t", "o", "o", "l">>
    [] kind = "agent" -> <<"a", "g", "e", "n", "t">>
    [] kind = "binary" -> <<"b", "i", "n", "a", "r", "y">>

\* the kinds callers form ids of
CallerKinds == PACKAGE_KINDS \cup {"binary"}

\* characters of names: letters, a digit, the hyphen
NameChars == {"a", "z", "0", "-"}

Names == UNION {[1..n -> NameChars] : n \in 1..MaxNameLen}

\* createPackageId: `${kind}:${name}`
createPackageId(kind, name) == KindChars(kind) \o <<":">> \o name

\* the regular expression of parsePackageId: one of the five kind words,
\* a colon, at least one more character
MatchesKind(str, kind) ==
  LET w == KindChars(kind)
  IN /\ Len(str) > Len(w) + 1
     /\ SubSeq(str, 1, Len(w)) = w
     /\ str[Len(w) + 1] = ":"

\* parsePackageId(id): [match[1], match[2]], or the throw
parsePackageId(str) ==
  IF \E kind \in PACKAGE_KINDS : MatchesKind(str, kind)
  THEN LET kind == CHOOSE k \in PACKAGE_KINDS : MatchesKind(str, k)
       IN [threw |-> FALSE, kind |-> kind,
           name |-> SubSeq(str, Len(KindChars(kind)) + 2, Len(str))]
  ELSE [threw |-> TRUE, kind |-> "none", name |-> << >>]

NoPid == [kind |-> "none", name |-> << >>]

PidInit ==
  /\ pidInput = NoPid
  /\ pidString = << >>
  /\ pidParsed = [threw |-> FALSE, kind |-> "none", name |-> << >>]

\* a caller builds an id
CreateId(kind, name) ==
  /\ pidInput' = [kind |-> kind, name |-> name]
  /\ pidString' = createPackageId(kind, name)
  /\ pidParsed' = [threw |-> FALSE, kind |-> "none", name |-> << >>]

\* and hands it to parsePackageId
ParseId ==
  /\ pidInput # NoPid
  /\ pidParsed' = parsePackageId(pidString)
  /\ UNCHANGED <<pidInput, pidString>>

PidNext ==
  \/ \E kind \in CallerKinds, name \in Names : CreateId(kind, name)
  \/ ParseId

\* ------------------------------------------------------------------------
\* Registry client
\* ------------------------------------------------------------------------
MaxClock == 3
MaxFetches == 2

\* CACHE_TTL, 24 h; the clock of the model counts in units of 24 h
CACHE_TTL == 1

VARIABLES
  now,         \* registry: Date.now()
  localIndex,  \* registry: the local registry index.json, or none
  regCache,    \* registry: the file PATHS.registryCache
  fpc,         \* registry: where fetchIndex stands
  fforce,      \* registry: options.refresh of the running call
  fres,        \* registry: what the latest fetchIndex returned or threw
  contacted,   \* history: the latest call sent its request to the remote
  atCall,      \* history: the files as the latest call found them
  atEnd,       \* history: the files as the latest call left off
  fetches      \* registry: fetchIndex calls made so far

fetVars == <<now, localIndex, regCache, fpc, fforce, fres, contacted, atCall,
             atEnd, fetches>>

NoLocal == [exists |-> FALSE, mtime |-> 0]
NoRegCache == [exists |-> FALSE, content |-> "none", mtime |-> 0]
NoFetch == [status |-> "none", index |-> "none"]

\* getLocalIndex: {index, mtime} of the first local path that exists, or null
getLocalIndex(l) == l.exists

\* getCacheMtime: mtimeMs of the cache file, or null
getCacheMtime(c) == IF c.exists THEN c.mtime ELSE -1

\* variant that lets the cache expire when it is exactly 24 h old
cacheFreshStrict(c, t) == t - c.mtime < CACHE_TTL

\* getCachedIndex, the age test: age > CACHE_TTL means expired
cacheFresh(c, t) == ~(t - c.mtime > CACHE_TTL)

\* getCachedIndex: the parsed cache file when it exists, is not expired and
\* parses; null otherwise
getCachedIndex(c, t) ==
  IF c.exists /\ cacheFresh(c, t) /\ c.content # "truncated"
  THEN c.content ELSE "null"

\* cacheIndex(index): writeFileSync(cachePath, JSON); a writer that dies
\* inside it leaves a truncated file
cacheIndex(index, t, complete) ==
  [exists |-> TRUE, content |-> IF complete THEN index ELSE "truncated",
   mtime |-> t]

\* the files at one moment: is there a local index; the cache file's
\* existence, age and whether it parses
Seen(l, c, t) ==
  [local |-> l.exists,
   cached |-> c.exists,
   age |-> IF c.exists THEN t - c.mtime ELSE 0,
   parses |-> c.exists /\ c.content # "truncated"]

FetInit ==
  /\ now = 0
  /\ localIndex = NoLocal
  /\ regCache = NoRegCache
  /\ fpc = "idle"
  /\ fforce = FALSE
  /\ fres = NoFetch
  /\ contacted = FALSE
  /\ atCall = Seen(NoLocal, NoRegCache, 0)
  /\ atEnd = Seen(NoLocal, NoRegCache, 0)
  /\ fetches = 0

\* time passes
Tick ==
  /\ now < MaxClock
  /\ now' = now + 1
  /\ UNCHANGED <<localIndex, regCache, fpc, fforce, fres, contacted, atCall,
                 atEnd, fetches>>

\* a developer, with USE_LOCAL_REGISTRY=true, writes or removes the local
\* index
LocalWrite ==
  /\ localIndex' = [exists |-> TRUE, mtime |-> now]
  /\ localIndex' # localIndex
  /\ UNCHANGED <<now, regCache, fpc, fforce, fres, contacted, atCall, atEnd,
                 fetches>>

LocalRemove ==
  /\ localIndex.exists
  /\ localIndex' = NoLocal
  /\ UNCHANGED <<now, regCache, fpc, fforce, fres, contacted, atCall, atEnd,
                 fetches>>

\* clearCache()
ClearCache ==
  /\ regCache.exists
  /\ regCache' = NoRegCache
  /\ UNCHANGED <<now, localIndex, fpc, fforce, fres, contacted, atCall,
                 atEnd, fetches>>

\* fetchIndex({force}) up to its await of fetch(url)
FetchBegin(refresh, complete) ==
  /\ fpc = "idle"
  /\ fetches < MaxFetches
  /\ fetches' = fetches + 1
  /\ fforce' = refresh
  /\ atCall' = Seen(localIndex, regCache, now)
  /\ atEnd' = Seen(localIndex, regCache, now)
  /\ IF /\ getLocalIndex(localIndex)
        /\ \/ refresh
           \/ getCacheMtime(regCache) = -1
           \/ localIndex.mtime > getCacheMtime(regCache)
     THEN /\ regCache' = cacheIndex("local", now, complete)
          /\ fres' = IF complete THEN [status |-> "ok", index |-> "local"]
                     ELSE [status |-> "killed", index |-> "none"]
          /\ contacted' = FALSE
          /\ UNCHANGED fpc
     ELSE IF ~refresh /\ getCachedIndex(regCache, now) # "null"
     THEN /\ fres' = [status |-> "ok", index |-> getCachedIndex(regCache, now)]
          /\ contacted' = FALSE
          /\ UNCHANGED <<regCache, fpc>>
     ELSE IF getLocalIndex(localIndex)
     THEN /\ fres' = [status |-> "ok", index |-> "local"]
          /\ contacted' = FALSE
          /\ UNCHANGED <<regCache, fpc>>
     ELSE /\ fpc' = "fetching"
          /\ contacted' = TRUE
          /\ fres' = NoFetch
          /\ UNCHANGED regCache
  /\ UNCHANGED <<now, localIndex>>

\* fetchIndex after the await: the response, or the catch
FetchResponse(ok, complete) ==
  /\ fpc = "fetching"
  /\ fpc' = "idle"
  /\ atEnd' = Seen(localIndex, regCache, now)
  /\ IF ok
     THEN /\ regCache' = cacheIndex("remote", now, complete)
          /\ fres' = IF complete THEN [status |-> "ok", index |-> "remote"]
                     ELSE [status |-> "killed", index |-> "none"]
     ELSE /\ fres' = IF getLocalIndex(localIndex)
                     THEN [status |-> "ok", index |-> "local"]
                     ELSE [status |-> "error", index |-> "none"]
          /\ UNCHANGED regCache
  /\ UNCHANGED <<now, localIndex, fforce, contacted, atCall, fetches>>

FetNext ==
  \/ Tick
  \/ LocalWrite
  \/ LocalRemove
  \/ ClearCache
  \/ \E refresh \in BOOLEAN, complete \in BOOLEAN : FetchBegin(refresh, complete)
  \/ \E ok \in BOOLEAN, complete \in BOOLEAN : FetchResponse(ok, complete)

\* ------------------------------------------------------------------------
\* Model pricing
\* ------------------------------------------------------------------------
MaxRows == 2
MaxDate == 2

VARIABLES
  pricing,     \* pricing: the rows of table model_pricing
  priced,      \* pricing: the row the latest getModelPricing returned
  pricedFor    \* pricing: the (provider, model) of that call

prVars == <<pricing, priced, pricedFor>>

PricingProviders == {"claude", "gemini"}

\* model_pattern values, % being the wildcard of LIKE, and model names
PricingPatterns == {<<"%">>, <<"g", "%">>, <<"g", "p", "%">>, <<"g", "p">>}
ModelNames == {<<"g", "p">>, <<"g", "p", "x">>, <<"g", "x">>}

\* a row: effective says that effective_until is null or in the future
PricingRows ==
  [provider : PricingProviders, model_pattern : PricingPatterns,
   effective_from : 1..MaxDate, effective : BOOLEAN]

NoRow ==
  [provider |-> "none", model_pattern |-> << >>, effective_from |-> 0,
   effective |-> FALSE]

\* str LIKE pat
RECURSIVE Like(_, _)
Like(str, pat) ==
  IF pat = << >> THEN str = << >>
  ELSE IF Head(pat) = "%"
  THEN Like(str, Tail(pat)) \/ (str # << >> /\ Like(Tail(str), pat))
  ELSE str # << >> /\ Head(str) = Head(pat) /\ Like(Tail(str), Tail(pat))

\* the WHERE clause of getModelPricing
PricingMatches(row, provider, model) ==
  /\ row.provider = provider
  /\ (row.model_pattern = model \/ Like(model, row.model_pattern))
  /\ row.effective

\* CASE WHEN model_pattern = ? THEN 0 ELSE 1 END
Exactness(row, model) == IF row.model_pattern = model THEN 0 ELSE 1

\* variant that orders by effective_from ascending
pricingBeforeOldest(r1, r2, model) ==
  \/ Exactness(r1, model) < Exactness(r2, model)
  \/ /\ Exactness(r1, model) = Exactness(r2, model)
     /\ r1.effective_from < r2.effective_from

\* the ORDER BY of getModelPricing: r1 sorts strictly before r2
pricingBefore(r1, r2, model) ==
  \/ Exactness(r1, model) < Exactness(r2, model)
  \/ /\ Exactness(r1, model) = Exactness(r2, model)
     /\ r1.effective_from > r2.effective_from

\* the rows LIMIT 1 may return: those no other matching row sorts before
FirstRows(rows, provider, model) ==
  LET matching == {r \in rows : PricingMatches(r, provider, model)}
  IN {r \in matching : \A q \in matching : ~pricingBefore(q, r, model)}

PrInit ==
  /\ pricing = {}
  /\ priced = NoRow
  /\ pricedFor = [provider |-> "none", model |-> << >>]

\* INSERT OR REPLACE INTO model_pricing: (provider, model_pattern,
\* effective_from) is unique
InsertPricing(row) ==
  /\ LET others == {r \in pricing :
                      \/ r.provider # row.provider
                      \/ r.model_pattern # row.model_pattern
                      \/ r.effective_from # row.effective_from}
     IN /\ Cardinality(others) < MaxRows
        /\ pricing' = others \cup {row}
  /\ pricing' # pricing
  /\ priced' = NoRow
  /\ pricedFor' = [provider |-> "none", model |-> << >>]

\* getModelPricing(provider, model): the first row of the query, or null
GetModelPricing(provider, model) ==
  /\ pricedFor' = [provider |-> provider, model |-> model]
  /\ IF FirstRows(pricing, provider, model) = {}
     THEN priced' = NoRow
     ELSE priced' \in FirstRows(pricing, provider, model)
  /\ UNCHANGED pricing

PrNext ==
  \/ \E row \in PricingRows : InsertPricing(row)
  \/ \E provider \in PricingProviders, model \in ModelNames :
        GetModelPricing(provider, model)

\* ------------------------------------------------------------------------
\* Secret metadata of the central config (addStack / removeStack modifiers)
\* ------------------------------------------------------------------------
MaxStackOps == 3

VARIABLES
  rsStacks,    \* config.stacks: per stack id its secrets list, or NoStack
  rsSecrets,   \* config.secrets: per secret name its stack pointer, or "none"
  rsBefore,    \* history: the config the latest removeStack started from
  rsRemoved,   \* history: the id the latest call removed, "none" after an add
  rsOps        \* modifier calls made so far

rsVars == <<rsStacks, rsSecrets, rsBefore, rsRemoved, rsOps>>

\* stackInfo.secrets brought to {name, required}: each name is not listed,
\* listed with required true, or listed with required false
SecretLists == [SecretNames -> {"no", "required", "optional"}]

\* config.stacks has no entry for the id
NoStack == [n \in SecretNames |-> "absent"]

ConfigOf(stacks, secrets) == [stacks |-> stacks, secrets |-> secrets]

\* variant that looks only at the secrets a stack lists with required true
stillNeededRequired(name, stacks) ==
  \E s \in Stacks : stacks[s] # NoStack /\ stacks[s][name] = "required"

\* Object.values(config.stacks).some(stack =>
\*   stack.secrets.some(s => s.name === secretName))
stillNeeded(name, stacks) ==
  \E s \in Stacks : stacks[s] # NoStack /\ stacks[s][name] # "no"

\* the modifier of addStack: the stack entry, and metadata pointing to this
\* stack for each listed secret that has none yet
addStackSecrets(cfg, id, list) ==
  ConfigOf([cfg.stacks EXCEPT ![id] = list],
           [n \in SecretNames |->
              IF list[n] # "no" /\ cfg.secrets[n] = "none"
              THEN id ELSE cfg.secrets[n]])

\* the modifier of removeStack: delete the stack, then the metadata of the
\* secrets that point to it and that no remaining stack still needs
removeStackSecrets(cfg, id) ==
  LET left == [cfg.stacks EXCEPT ![id] = NoStack]
  IN ConfigOf(left,
              [n \in SecretNames |->
                 IF cfg.secrets[n] = id /\ ~stillNeeded(n, left)
                 THEN "none" ELSE cfg.secrets[n]])

RsInit ==
  /\ rsStacks = [s \in Stacks |-> NoStack]
  /\ rsSecrets = [n \in SecretNames |-> "none"]
  /\ rsBefore = ConfigOf(rsStacks, rsSecrets)
  /\ rsRemoved = "none"
  /\ rsOps = 0

\* addStack(stackId, stackInfo) on its own
AddStackCall(id, list) ==
  /\ rsOps < MaxStackOps
  /\ rsOps' = rsOps + 1
  /\ LET c == addStackSecrets(ConfigOf(rsStacks, rsSecrets), id, list)
     IN rsStacks' = c.stacks /\ rsSecrets' = c.secrets
  /\ rsBefore' = ConfigOf(rsStacks, rsSecrets)
  /\ rsRemoved' = "none"

\* removeStack(stackId) on its own
RemoveStackCall(id) ==
  /\ rsOps < MaxStackOps
  /\ rsOps' = rsOps + 1
  /\ LET c == removeStackSecrets(ConfigOf(rsStacks, rsSecrets), id)
     IN rsStacks' = c.stacks /\ rsSecrets' = c.secrets
  /\ rsBefore' = ConfigOf(rsStacks, rsSecrets)
  /\ rsRemoved' = id

RsNext ==
  \/ \E id \in Stacks, list \in SecretLists : AddStackCall(id, list)
  \/ \E id \in Stacks : RemoveStackCall(id)

\* ------------------------------------------------------------------------
\* Two install invocations for the same stack
\* ------------------------------------------------------------------------
MaxInstallCalls == 3

Installers == {"i1", "i2"}

VARIABLES
  ciPc,        \* per invocation, its position inside installSinglePackage
  ciForce,     \* per invocation, options.force
  ciDir,       \* the install directory of the package exists
  ciManifest,  \* the invocation whose manifest.json is in the directory
  ciWriters,   \* invocations between their first and their last write to
               \* the install directory
  ciCalls      \* invocations started so far

ciVars == <<ciPc, ciForce, ciDir, ciManifest, ciWriters, ciCalls>>

CiInit ==
  /\ ciPc = [p \in Installers |-> "idle"]
  /\ ciForce = [p \in Installers |-> FALSE]
  /\ ciDir = FALSE
  /\ ciManifest = "none"
  /\ ciWriters = {}
  /\ ciCalls = 0

\* installPackage(id, {force}) up to the call of installSinglePackage
InstallCall(p, f) ==
  /\ ciPc[p] = "idle"
  /\ ciCalls < MaxInstallCalls
  /\ ciCalls' = ciCalls + 1
  /\ ciPc' = [ciPc EXCEPT ![p] = "check"]
  /\ ciForce' = [ciForce EXCEPT ![p] = f]
  /\ UNCHANGED <<ciDir, ciManifest, ciWriters>>

\* if (fs.existsSync(installPath) && !force) return {skipped: true}
CheckInstalled(p) ==
  /\ ciPc[p] = "check"
  /\ ciPc' = [ciPc EXCEPT ![p] = IF ciDir /\ ~ciForce[p]
                                 THEN "lockfile" ELSE "download"]
  /\ UNCHANGED <<ciForce, ciDir, ciManifest, ciWriters, ciCalls>>

\* downloadPackage(pkg, installPath): the first write into the directory
DownloadBegin(p) ==
  /\ ciPc[p] = "download"
  /\ ciPc' = [ciPc EXCEPT ![p] = "downloading"]
  /\ ciDir' = TRUE
  /\ ciWriters' = ciWriters \cup {p}
  /\ UNCHANGED <<ciForce, ciManifest, ciCalls>>

\* downloadPackage returns, or throws and installPackage returns the error
DownloadEnd(p, ok) ==
  /\ ciPc[p] = "downloading"
  /\ IF ok
     THEN /\ ciPc' = [ciPc EXCEPT ![p] = "manifest"]
          /\ UNCHANGED ciWriters
     ELSE /\ ciPc' = [ciPc EXCEPT ![p] = "idle"]
          /\ ciWriters' = ciWriters \ {p}
  /\ UNCHANGED <<ciForce, ciDir, ciManifest, ciCalls>>

\* fs.writeFileSync(manifest.json): the last write into the directory
WriteManifest(p) ==
  /\ ciPc[p] = "manifest"
  /\ ciPc' = [ciPc EXCEPT ![p] = "lockfile"]
  /\ ciManifest' = p
  /\ ciWriters' = ciWriters \ {p}
  /\ UNCHANGED <<ciForce, ciDir, ciCalls>>

\* installPackage after the loop: writeLockfile(resolved), return
WriteLockfile(p) ==
  /\ ciPc[p] = "lockfile"
  /\ ciPc' = [ciPc EXCEPT ![p] = "idle"]
  /\ UNCHANGED <<ciForce, ciDir, ciManifest, ciWriters, ciCalls>>

CiNext ==
  \/ \E p \in Installers, f \in BOOLEAN : InstallCall(p, f)
  \/ \E p \in Installers : CheckInstalled(p)
  \/ \E p \in Installers : DownloadBegin(p)
  \/ \E p \in Installers, ok \in BOOLEAN : DownloadEnd(p, ok)
  \/ \E p \in Installers : WriteManifest(p)
  \/ \E p \in Installers : WriteLockfile(p)

moreVars == <<rsVars, ciVars>>

MoreQuiet == RsInit /\ CiInit

\* the state of the components that keep no files of the central config
libVars == <<impVars, migVars, pidVars, fetVars, prVars, moreVars>>

LibQuiet == ImpInit /\ MigQuiet /\ PidInit /\ FetInit /\ PrInit /\ MoreQuiet

vars == <<cfgVars, instVars, idxVars, regVars, libVars>>

\* the other subsystems at rest
CfgQuiet == CfgInit /\ lockFile = NoLock

IdxQuiet ==
  /\ IdxInit
  /\ idxConfig = NullConfig
  /\ secretsFile = [n \in SecretNames |-> "unset"]
  /\ configured = [n \in SecretNames |-> FALSE]
  /\ cacheFile = NoCache

Init == CfgInit /\ InstInit /\ IdxQuiet /\ RegQuiet /\ LibQuiet

Next == CfgNext /\ UNCHANGED <<instVars, idxVars, regVars, libVars>>

Spec == Init /\ [][Next]_vars

NextInstall == InstNext /\ UNCHANGED <<cfgVars, idxVars, regVars, libVars>>

InitInstall == CfgQuiet /\ InstInit /\ IdxQuiet /\ RegQuiet /\ LibQuiet

SpecInstall == InitInstall /\ [][NextInstall]_vars

NextIndex == IdxNext /\ UNCHANGED <<cfgVars, instVars, regVars, libVars>>

InitIndex == CfgQuiet /\ InstInit /\ IdxInit /\ RegQuiet /\ LibQuiet

SpecIndex == InitIndex /\ [][NextIndex]_vars

\* the event loop runs the setTimeout callback once the delay has passed
TimeoutStep == TimeoutFire /\ UNCHANGED <<cfgVars, instVars, regVars, libVars>>

SpecIndexLive == SpecIndex /\ WF_vars(TimeoutStep)

\* the probes on their own: both stacks installed with a launch configuration
\* and their secrets, and a child that may write any line
ProbeInit ==
  /\ IdxInit
  /\ idxConfig = [s \in IdxStacks |-> "ok"]
  /\ secretsFile = [n \in SecretNames |-> "value"]
  /\ configured = [n \in SecretNames |-> TRUE]
  /\ cacheFile = NoCache

ProbeNext ==
  \/ IdxNext
  \/ \E id \in LineIds : ChildRequest(id)
  \/ \E id \in LineIds : ChildOther(id)
  \/ \E s \in IdxStacks : ChildTerminated(s)

NextProbe == ProbeNext /\ UNCHANGED <<cfgVars, instVars, regVars, libVars>>

InitProbe == CfgQuiet /\ InstInit /\ ProbeInit /\ RegQuiet /\ LibQuiet

SpecProbe == InitProbe /\ [][NextProbe]_vars

\* the config store when the writes of writeRudiConfig can fail
WriteNext == CfgNext \/ \E p \in Procs : WriteThrows(p)

NextWrite == WriteNext /\ UNCHANGED <<instVars, idxVars, regVars, libVars>>

SpecWrite == Init /\ [][NextWrite]_vars

NextRegister == RegNext /\ UNCHANGED <<cfgVars, instVars, idxVars, libVars>>

InitRegister == CfgQuiet /\ InstInit /\ IdxQuiet /\ RegInit /\ LibQuiet

SpecRegister == InitRegister /\ [][NextRegister]_vars

\* the components outside the central config, each on its own
AppQuiet == CfgQuiet /\ InstInit /\ IdxQuiet /\ RegQuiet

appVars == <<cfgVars, instVars, idxVars, regVars>>

NextImport ==
  ImpNext /\ UNCHANGED <<appVars, migVars, pidVars, fetVars, prVars, moreVars>>

InitImport == AppQuiet /\ LibQuiet

SpecImport == InitImport /\ [][NextImport]_vars

NextMigrate ==
  MigNext /\ UNCHANGED <<appVars, impVars, pidVars, fetVars, prVars, moreVars>>

InitMigrate ==
  AppQuiet /\ ImpInit /\ MigInit /\ PidInit /\ FetInit /\ PrInit /\ MoreQuiet

SpecMigrate == InitMigrate /\ [][NextMigrate]_vars

NextPackageId ==
  PidNext /\ UNCHANGED <<appVars, impVars, migVars, fetVars, prVars, moreVars>>

InitPackageId == AppQuiet /\ LibQuiet

SpecPackageId == InitPackageId /\ [][NextPackageId]_vars

NextFetch ==
  FetNext /\ UNCHANGED <<appVars, impVars, migVars, pidVars, prVars, moreVars>>

InitFetch == AppQuiet /\ LibQuiet

SpecFetch == InitFetch /\ [][NextFetch]_vars

NextPricing ==
  PrNext /\ UNCHANGED <<appVars, impVars, migVars, pidVars, fetVars, moreVars>>

InitPricing == AppQuiet /\ LibQuiet

SpecPricing == InitPricing /\ [][NextPricing]_vars

NextSecrets ==
  RsNext /\ UNCHANGED <<appVars, impVars, migVars, pidVars, fetVars, prVars, ciVars>>

NextConcurrentInstall ==
  CiNext /\ UNCHANGED <<appVars, impVars, migVars, pidVars, fetVars, prVars, rsVars>>

InitConcurrentInstall == AppQuiet /\ LibQuiet

SpecConcurrentInstall == InitConcurrentInstall /\ [][NextConcurrentInstall]_vars

InitSecrets == AppQuiet /\ LibQuiet

SpecSecrets == InitSecrets /\ [][NextSecrets]_vars

\* a process inside updateRudiConfig keeps running; running out of the
\* acquisition window is not forced
Run(p) ==
  /\ \/ ReadConfig(p)
     \/ TryCreate(p)
     \/ WritePid(p)
     \/ ReadLock(p)
     \/ UnlinkStale(p)
     \/ WaitRetry(p)
     \/ TmpOpen(p)
     \/ TmpWrite(p)
     \/ Rename(p)
     \/ Chmod(p)
     \/ ReleaseLock(p)
  /\ UNCHANGED <<instVars, idxVars, regVars, libVars>>

\* calls of updateRudiConfig in the behaviours checked for progress
MaxLiveOps == 2

\* every call is addStack of the same stack: progress does not depend on
\* what the modifier writes
NextLive ==
  /\ Next
  /\ CallsStarted' <= MaxLiveOps
  /\ \A p \in Procs : op'[p] \in {NoOp, [kind |-> "add", stack |-> "s1"]}

SpecLive == Init /\ [][NextLive]_vars /\ \A p \in Procs : WF_vars(Run(p))

\* ------------------------------------------------------------------------
\* Claims about the config store
\* ------------------------------------------------------------------------

\* C1: at every instant at most one process is between a successful lock
\* acquisition and its lock release.
C1_MutualExclusion ==
  Cardinality({p \in Procs : pc[p] \in LockedSection}) <= 1

\* C2: between a caller's read of the config and that caller's write, no
\* other process commits a write (the read happens inside the locked section).
C2_ReadInsideLock ==
  lastCommit # NoCommit => lastCommit.readAt = lastCommit.n - 1

\* C3: the config file, whenever it exists, holds the complete serialisation
\* produced by exactly one write call.
C3_NoTornConfig ==
  cfgFile # NoFile => cfgFile \in written

\* C29: after concurrent config mutations that all returned without error
\* the config reflects every one of them: two addStack calls for different
\* stack ids leave both stacks present.
C29_NoLostUpdate ==
  (/\ \A p \in Procs : pc[p] = "idle" /\ opsDone[p] = 1 /\ result[p] = "ok"
   /\ \A p \in Procs : op[p].kind = "add"
   /\ op["p1"].stack # op["p2"].stack) =>
     /\ ValidJson(cfgFile)
     /\ \A p \in Procs :
           \E i \in 1..Len(ParseJson(cfgFile)) : ParseJson(cfgFile)[i] = op[p].stack

\* C30: the lock file of a live process is removed only by that process, or
\* by another process at a moment when the pid stored in it names no live
\* process.
C30_LiveLockNotDeleted ==
  [][\A p \in Procs :
       (lockFile # NoLock /\ lockFile' = NoLock
          /\ pc[p] \in {"unlink_stale", "release"} /\ pc'[p] # pc[p]) =>
            \/ lockFile.creator = p
            \/ ~PidAlive(lockFile.pid)]_vars

\* ------------------------------------------------------------------------
\* Claims about the installer
\* ------------------------------------------------------------------------

\* C4: the install order that installPackage executes lists every dependency
\* before the package that depends on it and contains no package id twice.
C4_InstallOrderTopological ==
  ipc = "installing" =>
    /\ \A i, j \in 1..Len(toInstall) :
          i # j => toInstall[i].id # toInstall[j].id
    /\ \A j \in 1..Len(toInstall) :
          \A k \in 1..Len(toInstall[j].dependencies) :
             \A i \in 1..Len(toInstall) :
                toInstall[i].id = toInstall[j].dependencies[k].id => i < j
    /\ \A i \in 1..Len(attempted) : attempted[i] = toInstall[i].id

\* C4 witness: a batch of two dependencies and their dependent, all executed
C4_Witness ==
  /\ ipc = "installing"
  /\ Len(toInstall) = 3
  /\ Len(toInstall[3].dependencies) = 3
  /\ Len(attempted) = 3

\* C5: whenever installPackage(id) returns success, every dependency that
\* id's registry descriptor declares is installed on disk.
C5_DeclaredDepsInstalled ==
  ires.status \in {"success", "alreadyInstalled"} =>
    \A d \in DeclaredDeps(ires.id) : isPackageInstalled(d) = "true"

\* C6: after every install of a package, whichever strategy was taken, the
\* install path contains manifest.json and isPackageInstalled(id) is true.
C6_ManifestAfterInstall ==
  lastSingle.status \notin {"none", "threw"} =>
    /\ lastSingle.id \in manifests
    /\ isPackageInstalled(lastSingle.id) = "true"

\* C7: after uninstallPackage(id), for a package of any kind, binary
\* included, isPackageInstalled(id) is false and no lockfile for id exists.
C7_UninstallPostcondition ==
  ures.status # "none" =>
    /\ isPackageInstalled(ures.id) = "false"
    /\ <<LockKindWrite(ures.id.kind), ures.id.name>> \notin lockfiles

\* C8: when installing a package of the batch fails, installPackage stops at
\* once, attempts no later package, returns the failure naming that package,
\* and every package installed earlier in the batch stays in place.
C8_FailureAbortsBatch ==
  lastSingle.status = "threw" =>
    /\ ipc = "idle"
    /\ ires = [status |-> "failed", id |-> lastSingle.id]
    /\ Len(attempted) = Len(results) + 1
    /\ attempted[Len(attempted)] = lastSingle.id
    /\ \A i \in 1..Len(results) : results[i] \in dirs

\* C8 witness: the third package of a batch failed after two were installed
C8_Witness ==
  /\ lastSingle.status = "threw"
  /\ ires.status = "failed"
  /\ Len(results) = 2
  /\ Len(toInstall) = 3

\* C17: a second installPackage(id) without force right after a successful
\* one returns alreadyInstalled and hands nothing to installSinglePackage.
C17_SecondInstallIsNoOp ==
  second =>
    /\ ires = [status |-> "alreadyInstalled", id |-> resolved.id]
    /\ ipc = "idle"
    /\ attempted = << >>

\* C17 witness: the second call for a stack with dependencies returned
\* alreadyInstalled
C17_Witness ==
  /\ second
  /\ ires.status = "alreadyInstalled"
  /\ Len(resolved.dependencies) >= 2

\* C18: after installPackage(id) returned success, hasLockfile(id) is true.
C18_LockfileAfterSuccess ==
  ires.status \in {"success", "alreadyInstalled"} =>
    hasLockfile(ires.id) = "true"

\* C19: a package that isPackageInstalled reports as installed has a
\* manifest.json in its install directory.
C19_InstalledHasManifest ==
  \A id \in Requestable :
     isPackageInstalled(id) = "true" => id \in manifests

C21_ResultMapNamesSkippedAgent ==
  (/\ regOps > 0
   /\ "claude-desktop" \notin agentFiles
   /\ "claude-code" \in agentFiles) =>
     /\ "claude-code" \in DOMAIN regResults
     /\ regResults["claude-code"].success
     /\ ~regResults["claude-code"].skipped
     /\ "claude-desktop" \in DOMAIN regResults
     /\ regResults["claude-desktop"].skipped
     /\ regResults["claude-desktop"].reason = "Agent not installed"

\* C22: with skipExisting set, a transcript is skipped as existing exactly
\* when a row with the same provider and the same provider_session_id
\* exists, a row of another provider with that provider_session_id causes no
\* skip, and the import creates no second row for a pair that has one.
C22_SkipOnProviderAndSessionId ==
  lastImport.skipExisting =>
    /\ lastImport.skippedExisting = lastImport.pairExisted
    /\ lastImport.imported \cap lastImport.pairExisted = {}

\* C23: the turn_number values of the stored turns of a session are strictly
\* increasing in insertion order and the first stored turn has turn_number 1.
C23_TurnNumbersFromOne ==
  \A i \in 1..Len(sessions) :
     LET turns == sessions[i].turns
     IN /\ \A k \in 1..(Len(turns) - 1) : turns[k] < turns[k + 1]
        /\ turns # << >> => turns[1] = 1

\* the migrations between two versions, in increasing order
RECURSIVE MigrationsBetween(_, _)
MigrationsBetween(from, to) ==
  IF from >= to THEN << >>
  ELSE IF (from + 1) \in Migrations
  THEN <<from + 1>> \o MigrationsBetween(from + 1, to)
  ELSE MigrationsBetween(from + 1, to)

\* C24: opening a database at version v < SCHEMA_VERSION applies the
\* migrations for v+1, ..., SCHEMA_VERSION in increasing order, and a
\* version is recorded in schema_version only after its own migration has
\* completed.
C24_MigrationsInOrder ==
  mpc \in {"migrating", "recording", "failed", "done"} =>
    LET all == MigrationsBetween(mfrom, SCHEMA_VERSION)
        completed == {migLog[i] : i \in 1..Len(migLog)}
        recorded == {v \in schemaVersions : v > mfrom}
    IN /\ Len(migLog) <= Len(all)
       /\ migLog = SubSeq(all, 1, Len(migLog))
       /\ recorded \subseteq completed
       /\ recorded \subseteq ddl \ ddlPartial
       /\ (mpc = "done" /\ mfrom < SCHEMA_VERSION) =>
             migLog = all /\ recorded = completed

\* C24 witness: a database at version 1 was opened and migrations 2, 3 and 4
\* ran
C24_Witness ==
  /\ mpc = "done"
  /\ mfrom = 1
  /\ migLog = <<2, 3, 4>>
  /\ schemaVersions = {1, 2, 3, 4}

\* C25: for every kind in {stack, prompt, runtime, binary, agent} and every
\* name, parsePackageId(createPackageId(kind, name)) returns (kind, name).
C25_PackageIdRoundTrip ==
  (/\ pidInput.kind \in {"stack", "prompt", "runtime", "binary", "agent"}
   /\ pidParsed.kind # "none" \/ pidParsed.threw) =>
     /\ ~pidParsed.threw
     /\ pidParsed.kind = pidInput.kind
     /\ pidParsed.name = pidInput.name

\* C26 as stated: with no local index and no forced refresh, fetchIndex
\* returns the cached index without contacting the remote whenever the cache
\* is at most 24 h old, and contacts the remote only when the cache is
\* missing or older than 24 h.
C26_CacheWithin24h ==
  (fetches > 0 /\ ~atCall.local /\ ~fforce) =>
    /\ (atCall.cached /\ atCall.age <= CACHE_TTL) =>
          ~contacted /\ fres.status = "ok" /\ fres.index # "none"
    /\ contacted => (~atCall.cached \/ atCall.age > CACHE_TTL)

\* C26 as amended: the same for a cache that is at most 24 h old and parses;
\* the remote is contacted only when the cache is missing, older than 24 h
\* or unreadable.
C26_ReadableCacheWithin24h ==
  (fetches > 0 /\ ~atCall.local /\ ~fforce) =>
    /\ (atCall.cached /\ atCall.age <= CACHE_TTL /\ atCall.parses) =>
          ~contacted /\ fres.status = "ok" /\ fres.index # "none"
    /\ contacted =>
          (~atCall.cached \/ atCall.age > CACHE_TTL \/ ~atCall.parses)

\* C26 witness: a cache exactly 24 h old was returned without a request
C26_Witness ==
  /\ fetches > 0 /\ ~atCall.local /\ ~fforce
  /\ atCall.cached /\ atCall.age = CACHE_TTL /\ atCall.parses
  /\ fres = [status |-> "ok", index |-> "remote"]
  /\ ~contacted

\* C27: fetchIndex fails only when the remote fetch failed and neither a
\* local nor a cached index exists to fall back on; with a local index
\* present a network failure yields the local index.
C27_UnavailableOnlyWithoutFallback ==
  /\ fres.status = "error" =>
        /\ contacted
        /\ ~atEnd.local
        /\ ~(atEnd.cached /\ atEnd.parses)
  /\ (fpc = "idle" /\ contacted /\ atEnd.local) =>
        fres \in {[status |-> "ok", index |-> "local"],
                  [status |-> "ok", index |-> "remote"],
                  [status |-> "killed", index |-> "none"]}

\* the rows of the latest lookup's provider that match its model and are
\* in effect
Candidates ==
  {r \in pricing : PricingMatches(r, pricedFor.provider, pricedFor.model)}

\* C28 as stated: among the matching rows in effect the lookup selects the
\* row with the longest pattern and, among rows of equal pattern length, the
\* one with the most recent effective_from.
C28_LongestPatternWins ==
  pricedFor.provider # "none" =>
    /\ priced = NoRow <=> Candidates = {}
    /\ priced # NoRow =>
          /\ priced \in Candidates
          /\ \A r \in Candidates :
                /\ Len(r.model_pattern) <= Len(priced.model_pattern)
                /\ Len(r.model_pattern) = Len(priced.model_pattern) =>
                      r.effective_from <= priced.effective_from

\* C28 as amended: the lookup selects a row whose pattern equals the model
\* before any row that matches by wildcard and, among rows of equal
\* exactness, one with the most recent effective_from.
C28_ExactThenMostRecent ==
  pricedFor.provider # "none" =>
    /\ priced = NoRow <=> Candidates = {}
    /\ priced # NoRow =>
          /\ priced \in Candidates
          /\ \A r \in Candidates :
                /\ r.model_pattern = pricedFor.model =>
                      priced.model_pattern = pricedFor.model
                /\ ((r.model_pattern = pricedFor.model)
                      <=> (priced.model_pattern = pricedFor.model)) =>
                      r.effective_from <= priced.effective_from

\* C28 witness: of two wildcard rows that match, the more recent was taken
C28_Witness ==
  /\ priced # NoRow
  /\ \E r \in Candidates :
        /\ r.model_pattern # priced.model_pattern
        /\ r.model_pattern # pricedFor.model
        /\ priced.model_pattern # pricedFor.model
        /\ r.effective_from < priced.effective_from

\* ------------------------------------------------------------------------
\* Claims about the tool indexer
\* ------------------------------------------------------------------------
RequiredNames(s) ==
  { StackSecrets(s)[i].name : i \in { j \in 1..Len(StackSecrets(s)) :
                                         StackSecrets(s)[j].required = "true" } }

FailureKinds == {"Failed to spawn", "Spawn error", "Process exited with code",
                 "RPC error", "Timeout"}

\* C9 as stated: the indexer does not spawn a stack unless every secret the
\* stack lists with required=true has secrets[name].configured = true in the
\* central config; otherwise it records "Missing required secrets" with
\* empty tools.
C9_SpawnOnlyIfConfigured ==
  /\ \A s \in spawned : \A n \in RequiredNames(s) : configured[n]
  /\ \A s \in probed :
        (\E n \in RequiredNames(s) : ~configured[n]) =>
           /\ byStack[s].error = "Missing required secrets"
           /\ byStack[s].tools = "empty"

\* C9 amended: the indexer does not spawn a stack unless secrets.json holds a
\* non-blank value for every secret the stack lists with required=true; for a
\* stack that has a launch configuration it then records "Missing required
\* secrets: <list>" naming those secrets, with empty tools.
C9_SpawnOnlyIfSecretValue ==
  /\ \A s \in spawned : \A n \in RequiredNames(s) : HasValue(secretsFile[n])
  /\ \A s \in probed :
        (idxConfig[s] = "ok" /\ \E n \in RequiredNames(s) : ~HasValue(secretsFile[n])) =>
           /\ s \notin spawned
           /\ byStack[s].error = "Missing required secrets"
           /\ byStack[s].tools = "empty"
           /\ \A n \in RequiredNames(s) :
                 ~HasValue(secretsFile[n]) =>
                    \E i \in 1..Len(byStack[s].missingSecrets) :
                       byStack[s].missingSecrets[i] = n

\* C9 witness: one stack was refused for a blank required secret and the
\* other, whose required secret has a value, was spawned
C9_Witness ==
  /\ "b" \in probed
  /\ secretsFile["K2"] = "blank"
  /\ byStack["b"].error = "Missing required secrets"
  /\ "a" \in spawned
  /\ ~configured["K1"]

\* C10: a spawn error, non-zero exit, RPC error or timeout of one stack is
\* captured in that stack's record, is never raised as an exception, and every
\* requested stack that the config lists as installed is probed whatever
\* happened to the earlier ones.
C10_ErrorsCaptured ==
  /\ xpc # "raised"
  /\ \A s \in probed :
        cause[s] \in FailureKinds =>
           /\ byStack[s].error = cause[s]
           /\ byStack[s].tools = "empty"
  /\ xpc = "done" =>
        \A i \in 1..Len(stackIds) :
           Eligible(stackIds[i]) => stackIds[i] \in probed

\* C10 witness: the first stack failed with one of the four errors and the
\* second was indexed successfully afterwards
C10_Witness ==
  /\ xpc = "done"
  /\ Len(stackIds) = 2
  /\ stackIds[1] \in probed
  /\ cause[stackIds[1]] \in FailureKinds \ {"Failed to spawn"}
  /\ stackIds[2] \in probed
  /\ byStack[stackIds[2]].error = "null"

TimeoutRecord ==
  [tools |-> "empty", error |-> "Timeout", missingSecrets |-> << >>]

\* C11: every probe that spawned a subprocess gets resolved (the timer stays
\* armed until it is), and when the timeout is what resolves it the child has
\* been killed and the result, as recorded in the cache entry, is empty tools
\* with the error "Timeout after Nms".
C11_ProbeResolvesByTimeout ==
  /\ [](xpc = "probing" /\ ~resolvedP => timerArmed)
  /\ [](xpc = "probing" /\ resolvedP /\ cause[stackIds[pos]] = "Timeout" =>
           child # "running" /\ probeResult = TimeoutRecord)
  /\ [](\A s \in probed : cause[s] = "Timeout" => byStack[s] = TimeoutRecord)
  /\ (xpc = "probing" /\ ~resolvedP) ~> (xpc = "probing" /\ resolvedP)

\* C11 witness: the timer expired on a running child that had answered
\* initialize but not tools/list; the child was killed
C11_Witness ==
  /\ xpc = "probing"
  /\ resolvedP
  /\ cause[stackIds[pos]] = "Timeout"
  /\ child = "killed"
  /\ 2 \in pending

C38_WrappedMigrationAtomic ==
  /\ \A v \in Migrations \ Unwrapped :
        /\ v \notin ddlPartial
        /\ v \in schemaVersions => v \in ddl
        /\ (v \in ddl /\ v \notin schemaVersions) =>
              v < currentVersion(schemaVersions)
  /\ (mpc = "failed" /\ mv \in Migrations \ Unwrapped) =>
        /\ mv \notin ddl
        /\ mv \notin schemaVersions
        /\ currentVersion(schemaVersions) =
              IF migLog = << >> THEN mfrom ELSE migLog[Len(migLog)]

\* C38 witness: a database at version 1 was opened, migration 2 committed
\* and migration 3 failed
C38_Witness ==
  /\ mpc = "failed"
  /\ mfrom = 1
  /\ mv = 3
  /\ migLog = <<2>>
  /\ currentVersion(schemaVersions) = 2

\* ------------------------------------------------------------------------
\* Claims about the secret metadata of the central config
\* ------------------------------------------------------------------------

\* C35 as stated: removeStack(id) deletes stacks[id] and then deletes exactly
\* those secrets whose stack pointer equals id and which no remaining stack
\* lists as required; every other secret is kept.
C35_RemovesUnrequiredSecrets ==
  rsRemoved # "none" =>
     /\ rsStacks = [rsBefore.stacks EXCEPT ![rsRemoved] = NoStack]
     /\ \A n \in SecretNames :
           rsSecrets[n] =
              IF /\ rsBefore.secrets[n] = rsRemoved
                 /\ ~\E s \in Stacks : /\ rsStacks[s] # NoStack
                                       /\ rsStacks[s][n] = "required"
              THEN "none" ELSE rsBefore.secrets[n]

\* C35 amended: removeStack(id) deletes stacks[id] and then deletes exactly
\* those secrets whose stack pointer equals id and which no remaining stack
\* lists among its secrets, required or not; every other secret is kept.
C35_RemovesUnlistedSecrets ==
  rsRemoved # "none" =>
     /\ rsStacks = [rsBefore.stacks EXCEPT ![rsRemoved] = NoStack]
     /\ \A n \in SecretNames :
           rsSecrets[n] =
              IF /\ rsBefore.secrets[n] = rsRemoved
                 /\ ~\E s \in Stacks : /\ rsStacks[s] # NoStack
                                       /\ rsStacks[s][n] \in {"required", "optional"}
              THEN "none" ELSE rsBefore.secrets[n]

\* C35 witness: s1 was removed; of its two secrets, K1 went and K2 stayed
\* because s2, which remains, lists K2 as optional
C35_Witness ==
  /\ rsRemoved = "s1"
  /\ rsBefore.secrets = [n \in SecretNames |-> "s1"]
  /\ rsStacks["s2"] # NoStack
  /\ rsStacks["s2"]["K1"] = "no"
  /\ rsStacks["s2"]["K2"] = "optional"
  /\ rsSecrets["K1"] = "none"
  /\ rsSecrets["K2"] = "s1"

\* ------------------------------------------------------------------------
\* Claims about concurrent installs
\* ------------------------------------------------------------------------

\* C37: two concurrent install invocations for the same package are
\* serialised: their writes to that package's install directory never
\* overlap, so the directory has a single writer at a time.
C37_SingleWriterPerPackage == Cardinality(ciWriters) <= 1

\* ------------------------------------------------------------------------
\* Claims about the handshake of a probe
\* ------------------------------------------------------------------------
Handshake == <<"initialize", "notifications/initialized", "tools/list">>

\* a line of the given kind carrying the given id has been handled
Received(id, kind) ==
  \E i \in 1..Len(lines) : lines[i] = [id |-> id, kind |-> kind]

\* ids of the requests written so far, in send order
RECURSIVE RequestIds(_, _)
RequestIds(methods, n) ==
  IF methods = << >> THEN << >>
  ELSE IF Head(methods) = "notifications/initialized"
       THEN RequestIds(Tail(methods), n)
       ELSE <<n>> \o RequestIds(Tail(methods), n + 1)

\* C31: for each probed stack the client writes initialize first, writes
\* notifications/initialized only after the response to initialize has been
\* received and tools/list only after notifications/initialized; tools/list
\* is never sent before the initialize response arrives.
C31_HandshakeOrder ==
  xpc = "probing" =>
     /\ Len(sent) <= Len(Handshake)
     /\ sent = SubSeq(Handshake, 1, Len(sent))
     /\ Len(sent) > 1 => Received(1, "result")

\* C32: within one probe the request ids are 1, 2, ... in send order; each
\* incoming response completes only the pending request carrying the same id
\* and at most once, and a message with no id or with an id that is not
\* pending changes no pending request and does not end the probe.
C32_ResponsesMatchedById ==
  /\ [](xpc = "probing" /\ child # "none" =>
          /\ requestId = Len(RequestIds(sent, 1))
          /\ \A i \in 1..requestId : RequestIds(sent, 1)[i] = i
          /\ pending \subseteq 1..requestId)
  /\ [][(xpc = "probing" /\ xpc' = "probing" /\ Len(lines') = Len(lines) + 1) =>
          LET l == lines'[Len(lines')]
          IN /\ l.kind \in {"result", "error"} =>
                   /\ l.id \in pending
                   /\ pending \ pending' = {l.id}
                   /\ pending' \ pending \subseteq {requestId + 1}
             /\ (l.id = 0 \/ l.id \notin pending) =>
                   /\ pending' = pending
                   /\ resolvedP' = resolvedP
                   /\ probeResult' = probeResult
                   /\ child' = child
                   /\ sent' = sent]_vars

\* C32 witness: the probe has ended with the tools after a line without an
\* id and a line with an id that was not pending were handled and the
\* responses to requests 1 and 2 were received
C32_Witness ==
  /\ xpc = "probing"
  /\ resolvedP
  /\ probeResult.error = "null"
  /\ Received(0, "other")
  /\ Received(3, "other")
  /\ Received(1, "result")
  /\ Received(2, "result")

\* C33: a probe resolves with error = null only if a tools/list response was
\* actually received from the child; if the child exits before answering,
\* with any exit code including 0, the recorded result is an error with empty
\* tools.
C33_NullErrorOnlyAfterToolsList ==
  /\ (xpc = "probing" /\ resolvedP /\ probeResult.error = "null") =>
        Received(2, "result")
  /\ (xpc = "probing" /\ resolvedP /\ child = "exited") =>
        /\ probeResult.error \in {"Process exited with code", "Timeout"}
        /\ probeResult.tools = "empty"

\* C34 as stated: at most one stack subprocess is alive at any instant, the
\* next stack being spawned only after the previous stack's probe has
\* resolved and its subprocess has terminated.
C34_OneSubprocessAlive ==
  Cardinality({s \in IdxStacks : alive[s] # "none"}) <= 1

\* C34 amended: at most one stack subprocess that has not been sent the kill
\* signal is alive at any instant, the next stack being spawned only after
\* the previous stack's probe has resolved and its subprocess has exited or
\* has been sent the kill signal.
C34_OneSubprocessNotKilled ==
  \A s \in IdxStacks :
     alive[s] = "running" =>
        /\ xpc = "probing"
        /\ stackIds[pos] = s
        /\ child = "running"
        /\ ~resolvedP

\* C34 witness: the second stack is being probed, its subprocess running,
\* while the subprocess of the first, killed at the end of its own probe, has
\* not ended yet
C34_Witness ==
  /\ xpc = "probing"
  /\ pos = 2
  /\ alive[stackIds[2]] = "running"
  /\ stackIds[1] \in IdxStacks
  /\ alive[stackIds[1]] = "killed"

\* ------------------------------------------------------------------------
\* Claims about the agent registrar
\* ------------------------------------------------------------------------

\* C13: registering the same stack with the same manifest twice in a row
\* leaves the TOML agent's and the JSON agent's on-disk config identical to
\* their content after the first registration.
C13_RegisterIdempotent ==
  repeated => tomlFile = prevToml /\ jsonFile = prevJson

\* the entries of a config file other than the one of the given stack
OtherServers(file, id) == SelectSeq(file, LAMBDA e : e.id # id)

\* C36: registering or unregistering a stack changes only the entry
\* settings[<agent.key>][stackId] of each agent config file: every other
\* server entry that was in the file before the operation is still there,
\* unchanged, afterwards.
C36_OtherEntriesUntouched ==
  /\ lastReg # NoReg =>
        /\ OtherServers(tomlFile, lastReg.id) = OtherServers(prevToml, lastReg.id)
        /\ OtherServers(jsonFile, lastReg.id) = OtherServers(prevJson, lastReg.id)
  /\ lastUnreg # "none" =>
        /\ OtherServers(tomlFile, lastUnreg) = OtherServers(prevToml, lastUnreg)
        /\ OtherServers(jsonFile, lastUnreg) = OtherServers(prevJson, lastUnreg)

\* ------------------------------------------------------------------------
\* Claims about the lock of the config store
\* ------------------------------------------------------------------------
StaleLock == lockFile # NoLock /\ lockFile.pid = DeadPid

\* C14: a writer that finds the lock file of a dead process removes it and
\* goes straight back to creating the lock, without a wait; left alone, it
\* acquires the lock and writes the config without having waited at all.
C14_StaleLockRemoved ==
  /\ [][\A p \in Procs :
          (pc[p] = "unlink_stale" /\ pc'[p] # "unlink_stale" /\ StaleLock) =>
             (lockFile' = NoLock /\ pc'[p] = "create" /\ waits'[p] = waits[p])]_vars
  /\ \A p \in Procs :
        (StaleLock /\ pc[p] = "create" /\ waits[p] = 0
           /\ \A q \in Procs \ {p} : pc[q] = "idle")
        ~> \/ pc[p] = "chmod" /\ waits[p] = 0 /\ result[p] = "ok"
           \/ \E q \in Procs \ {p} : pc[q] # "idle"

\* C14 witness: p1 found the lock of a dead process when it entered
\* acquireLock and has renamed its config into place without one wait
C14_Witness ==
  /\ acqStart["p1"] = "stale"
  /\ pc["p1"] = "chmod"
  /\ waits["p1"] = 0
  /\ result["p1"] = "ok"
  /\ lastCommit.by = "p1"

\* C15: a writer whose acquisition began while a live process held the lock
\* does not get to write while that process still holds it; a call that
\* ended with the lock-contention error wrote nothing.
C15_HeldLockBlocksWriter ==
  \A p \in Procs : \A q \in Procs \ {p} :
     /\ ~ /\ pc[p] \in LockedSection
          /\ acqStart[p] = q
          /\ pc[q] \in LockedSection \cup {"write_pid"}
     /\ (pc[p] = "idle" /\ result[p] = "lock_timeout") =>
           fdTarget[p] = "none"

\* C16: of two concurrent updateRudiConfig calls, neither of which runs out
\* of the acquisition window (each hold takes 3 s of the 5 s), both return
\* without error.
C16_BothCallsSucceed ==
  (\A q \in Procs : result[q] # "lock_timeout") =>
     \A p \in Procs : (pc[p] = "idle" /\ opsDone[p] > 0) => result[p] = "ok"

\* C39: every successful lock acquisition in writeRudiConfig is followed by
\* a release on every path out of the write: when the call has returned or
\* thrown (tmp write, rename or chmod failing), the lock file created by that
\* call no longer exists.
C39_LockReleasedOnEveryPath ==
  \A p \in Procs :
     pc[p] \in {"idle", "read"} => (lockFile = NoLock \/ lockFile.creator # p)

\* C39 witness: a call of p1 that held the lock has thrown out of the write
\* and returned, and no lock file is left
C39_Witness ==
  /\ pc["p1"] = "idle"
  /\ result["p1"] = "io_error"
  /\ opsDone["p1"] = 1
  /\ lockFile = NoLock
  /\ \A q \in Procs \ {"p1"} : pc[q] = "idle" /\ opsDone[q] = 0

====
